---- MODULE Spec2Model ----
(***************************************************************************)
(* PNI RM3100 magnetometer driver (class PniRm3100, src/src/pni_rm3100.py). *)
(*                                                                         *)
(* The configuration object's fields are the variables; every assign_*     *)
(* method is one action; write_config and self_test are sequences of bus   *)
(* transactions, one action per transaction, in the order of the method    *)
(* body; read_meas_x/y/z and read_meas are one action each, the device's   *)
(* answer being an argument of the action.                                 *)
(***************************************************************************)
EXTENDS Integers, Sequences, FiniteSets, TLC

VARIABLES
    device_addr,              \* self.device_addr
    x_ccr, y_ccr, z_ccr,      \* self.x_ccr, self.y_ccr, self.z_ccr
    x_scaling, y_scaling, z_scaling, \* uT/LSB, exact fractions <<num, den>>
    cmx, cmy, cmz,            \* per-axis continuous-mode flags
    cmm_byte, tmrc_byte, hshake_byte, bist_byte, poll_byte,
    print_status_statements,  \* self.print_status_statements
    dev,                      \* registers of the devices on the bus: dev[addr][reg]
    bus,                      \* bus transactions issued by the call in progress / last call
    pc,                       \* position inside write_config or self_test ("idle" between calls)
    calls,                    \* number of method calls made so far
    last,                     \* the most recent method call: name, arguments, outcome
    pre,                      \* the configuration as it was when that call began
    retval,                   \* what that call returned (None, a value, a list)
    self_test_i,              \* self_test's local i: status polls that found no data
    peer,                     \* a second session on the same bus: where it is in write_config
    mutex                     \* the callers' lock around write_config ("unused": they have none)

cfgvars == <<device_addr, x_ccr, y_ccr, z_ccr, x_scaling, y_scaling, z_scaling,
             cmx, cmy, cmz, cmm_byte, tmrc_byte, hshake_byte, bist_byte, poll_byte>>

vars == <<device_addr, x_ccr, y_ccr, z_ccr, x_scaling, y_scaling, z_scaling,
          cmx, cmy, cmz, cmm_byte, tmrc_byte, hshake_byte, bist_byte, poll_byte,
          print_status_statements, dev, bus, pc, calls, last, pre,
          retval, self_test_i, peer, mutex>>

-----------------------------------------------------------------------------
(* Register map: addresses and bit masks (decimal; hex in the comment).     *)

I2C_ADDR_LL == 32
\* 0x20
I2C_ADDR_HL == 33
\* 0x21
I2C_ADDR_LH == 34
\* 0x22
I2C_ADDR_HH == 35
\* 0x23
DeviceAddress == {I2C_ADDR_LL, I2C_ADDR_HL, I2C_ADDR_LH, I2C_ADDR_HH}

CCR_REGISTER_ADDR == 4
\* A default cycle count of half the documented one.
CCR_DEFAULT_halved == 200 \div 2

CCR_DEFAULT == 200
\* 0x00C8

CMM_REGISTER_ADDR == 1
CMM_CMZ == 64
CMM_CMY == 32
CMM_CMX == 16
CMM_DRDM == 4
CMM_START == 1

TMRC_REGISTER_ADDR == 11
\* 0x0B
TMRC_600HZ == 146
\* 0x92
TMRC_300HZ == 147
TMRC_150HZ == 148
TMRC_75HZ == 149
TMRC_37HZ == 150
\* 0x96
TMRC_18HZ == 151
TMRC_9HZ == 152
TMRC_4_5HZ == 153
TMRC_2_3HZ == 154
TMRC_1_2HZ == 155
TMRC_0_6HZ == 156
TMRC_0_3HZ == 157
TMRC_0_015HZ == 158
TMRC_0_0075HZ == 159
\* 0x9F

POLL_REGISTER_ADDR == 0
POLL_PMZ == 64
POLL_PMY == 32
POLL_PMX == 16

BIST_REGISTER_ADDR == 51
\* 0x33
BIST_STE == 128
BIST_ZOK == 64
BIST_YOK == 32
BIST_XOK == 16
BIST_BW1 == 8
BIST_BW0 == 4
BIST_TO_30us == BIST_BW0
BIST_TO_60us == BIST_BW1
BIST_TO_120us == BIST_BW1 + BIST_BW0
BIST_BP1 == 2
BIST_BP0 == 1
BIST_LRP_1 == BIST_BP0
BIST_LRP_2 == BIST_BP1
BIST_LRP_4 == BIST_BP1 + BIST_BP0

HSHAKE_REGISTER_ADDR == 53
\* 0x35
HSHAKE_NACK2 == 64
HSHAKE_NACK1 == 32
HSHAKE_NACK0 == 16
HSHAKE_DRC1 == 2
HSHAKE_DRC0 == 1

STATUS_REGISTER_ADDR == 52
\* 0x34
STATUS_DRDY == 128
\* 0x80

MEAS_REGISTER_ADDR == 36
\* 0x24

-----------------------------------------------------------------------------
(* Python integer operators on the values the driver handles.              *)

\* a | b on non-negative integers
RECURSIVE BitOr(_, _)
BitOr(a, b) ==
    IF a = 0 THEN b
    ELSE IF b = 0 THEN a
    ELSE (IF a % 2 = 1 \/ b % 2 = 1 THEN 1 ELSE 0) + 2 * BitOr(a \div 2, b \div 2)

\* a & b on non-negative integers
RECURSIVE BitAnd(_, _)
BitAnd(a, b) ==
    IF a = 0 \/ b = 0 THEN 0
    ELSE (a % 2) * (b % 2) + 2 * BitAnd(a \div 2, b \div 2)

\* a & ~m for non-negative a and m: Python's ~m is -m-1, whose two's-complement
\* bits are those of m inverted at every position, so each bit of a survives
\* exactly when the same bit of m is clear.
RECURSIVE BitAndNot(_, _)
BitAndNot(a, m) ==
    IF a = 0 THEN 0
    ELSE (a % 2) * (1 - (m % 2)) + 2 * BitAndNot(a \div 2, m \div 2)

RECURSIVE GCD(_, _)
GCD(a, b) == IF b = 0 THEN a ELSE GCD(b, a % b)

\* the fraction n/d in lowest terms (n, d > 0)
Frac(n, d) == <<n \div GCD(n, d), d \div GCD(n, d)>>

\* An optional argument: None is <<>>, the integer v is <<v>>.
None == <<>>
Some(v) == <<v>>
IsNone(a) == a = <<>>
IsInt(a) == Len(a) = 1
Val(a) == a[1]

-----------------------------------------------------------------------------
(* Integer codec.                                                          *)

\* __cycle_count_to_scaling: gain = (150.0 / 400.0) * cycle_count, an exact
\* float for every 16-bit cycle count; scaling = 1.0 / gain raises
\* ZeroDivisionError when gain is 0.0.  Distinct gains give distinct scalings,
\* so the scaling is kept as the exact fraction 400 / (150 * cycle_count).
cycle_count_to_scaling_raises(cycle_count) == 150 * cycle_count = 0
cycle_count_to_scaling(cycle_count) == Frac(400, 150 * cycle_count)

\* endian_swap_int16 with a body that only shifts the low byte up.
endian_swap_int16_shift_only(input_int16) == BitAnd(input_int16 * 256, 65280)

\* endian_swap_int16: ((v << 8) & 0xFF00) | ((v >> 8) & 0x00FF)
endian_swap_int16(input_int16) ==
    BitOr(BitAnd(input_int16 * 256, 65280), BitAnd(input_int16 \div 256, 255))

\* int.from_bytes(b, "big") for a block of three bytes (read_meas_x line 925)
from_bytes_big(b) == b[1] * 65536 + b[2] * 256 + b[3]

\* uint24_to_int24 with a body that drops the sign test.
uint24_to_int24_unsigned(unsigned_int24) == BitAnd(unsigned_int24, 16777215)

\* uint24_to_int24 without its first line, the mask to 24 bits.
uint24_to_int24_unmasked(unsigned_int24) ==
    LET three_byte_sign_bit == 8388608
    IN  IF BitAnd(unsigned_int24, three_byte_sign_bit) # 0
        THEN BitAndNot(unsigned_int24, three_byte_sign_bit) - three_byte_sign_bit
        ELSE unsigned_int24

\* uint24_to_int24: mask to 24 bits; when bit 23 is set, clear it and subtract
\* 0x800000.
uint24_to_int24(unsigned_int24) ==
    LET masked == BitAnd(unsigned_int24, 16777215)
        three_byte_sign_bit == 8388608
    IN  IF BitAnd(masked, three_byte_sign_bit) # 0
        THEN BitAndNot(masked, three_byte_sign_bit) - three_byte_sign_bit
        ELSE masked

-----------------------------------------------------------------------------
(* Construction.                                                           *)

\* The configuration fields as one record (a snapshot of the object).
Cfg ==
    [device_addr |-> device_addr,
     x_ccr |-> x_ccr, y_ccr |-> y_ccr, z_ccr |-> z_ccr,
     x_scaling |-> x_scaling, y_scaling |-> y_scaling, z_scaling |-> z_scaling,
     cmx |-> cmx, cmy |-> cmy, cmz |-> cmz,
     cmm_byte |-> cmm_byte, tmrc_byte |-> tmrc_byte, hshake_byte |-> hshake_byte,
     bist_byte |-> bist_byte, poll_byte |-> poll_byte]

\* The byte registers of one device that the driver writes.
Registers ==
    {POLL_REGISTER_ADDR, CMM_REGISTER_ADDR,
     CCR_REGISTER_ADDR, CCR_REGISTER_ADDR + 1, CCR_REGISTER_ADDR + 2,
     CCR_REGISTER_ADDR + 3, CCR_REGISTER_ADDR + 4, CCR_REGISTER_ADDR + 5,
     TMRC_REGISTER_ADDR, BIST_REGISTER_ADDR, HSHAKE_REGISTER_ADDR}

\* Content of a device register the driver has not written yet.
Unwritten == 0 - 1

\* What a method call left behind: its name, arguments, the exception it
\* raised ("none" when it returned), its return value and whether it printed.
Outcome(op, args, exc, printed) ==
    [op |-> op, args |-> args, exc |-> exc, ret |-> "None", printed |-> printed]

\* __init__ / default_config
Init ==
    /\ device_addr = I2C_ADDR_LL
    /\ x_ccr = CCR_DEFAULT
    /\ y_ccr = CCR_DEFAULT
    /\ z_ccr = CCR_DEFAULT
    /\ x_scaling = <<1, 75>>
    /\ y_scaling = <<1, 75>>
    /\ z_scaling = <<1, 75>>
    /\ tmrc_byte = TMRC_37HZ
    /\ cmx = TRUE
    /\ cmy = TRUE
    /\ cmz = TRUE
    /\ cmm_byte = BitOr(BitOr(BitOr(BitOr(CMM_CMX, CMM_CMY), CMM_CMZ), CMM_DRDM), CMM_START)
    /\ poll_byte = 0
    /\ bist_byte = BitOr(BIST_TO_120us, BIST_LRP_4)
    /\ hshake_byte = BitOr(HSHAKE_DRC1, HSHAKE_DRC0)
    /\ print_status_statements = FALSE
    /\ dev = [a \in DeviceAddress |-> [r \in Registers |-> Unwritten]]
    /\ bus = <<>>
    /\ pc = "idle"
    /\ calls = 0
    /\ last = Outcome("__init__", <<>>, "none", FALSE)
    /\ pre = Cfg
    /\ retval = None
    /\ self_test_i = 0
    /\ peer = [pc |-> "idle", done |-> FALSE]
    /\ mutex = "unused"

\* A new object on which op(arg) has just been called and has not returned yet.
InitCalling(op, arg) ==
    /\ device_addr = I2C_ADDR_LL
    /\ x_ccr = CCR_DEFAULT
    /\ y_ccr = CCR_DEFAULT
    /\ z_ccr = CCR_DEFAULT
    /\ x_scaling = <<1, 75>>
    /\ y_scaling = <<1, 75>>
    /\ z_scaling = <<1, 75>>
    /\ tmrc_byte = TMRC_37HZ
    /\ cmx = TRUE
    /\ cmy = TRUE
    /\ cmz = TRUE
    /\ cmm_byte = BitOr(BitOr(BitOr(BitOr(CMM_CMX, CMM_CMY), CMM_CMZ), CMM_DRDM), CMM_START)
    /\ poll_byte = 0
    /\ bist_byte = BitOr(BIST_TO_120us, BIST_LRP_4)
    /\ hshake_byte = BitOr(HSHAKE_DRC1, HSHAKE_DRC0)
    /\ print_status_statements = FALSE
    /\ dev = [a \in DeviceAddress |-> [r \in Registers |-> Unwritten]]
    /\ bus = <<>>
    /\ pc = op
    /\ calls = 1
    /\ last = Outcome(op, <<arg>>, "none", FALSE)
    /\ pre = Cfg
    /\ retval = None
    /\ self_test_i = 0
    /\ peer = [pc |-> "idle", done |-> FALSE]
    /\ mutex = "unused"

\* A setter that also writes through to the device, clearing its POLL register.
Setter_writes_through(op, args, exc, printed) ==
    /\ pc = "idle"
    /\ pre' = Cfg
    /\ last' = Outcome(op, args, exc, printed)
    /\ bus' = <<[op |-> "write_byte", addr |-> device_addr,
                 reg |-> POLL_REGISTER_ADDR, val |-> 0]>>
    /\ dev' = [dev EXCEPT ![device_addr][POLL_REGISTER_ADDR] = 0]
    /\ retval' = None
    /\ UNCHANGED <<pc, print_status_statements, self_test_i>>

\* What every assign_* method has in common: it runs between bus calls, makes
\* no bus transaction and leaves the print flag alone.
Setter(op, args, exc, printed) ==
    /\ pc = "idle"
    /\ pre' = Cfg
    /\ last' = Outcome(op, args, exc, printed)
    /\ bus' = <<>>
    /\ retval' = None
    /\ UNCHANGED <<dev, pc, print_status_statements, self_test_i>>

\* The caller sets the public attribute print_status_statements.
set_print_status_statements(flag) ==
    /\ pc = "idle"
    /\ print_status_statements' = flag
    /\ UNCHANGED <<cfgvars, dev, bus, pc, last, pre, retval, self_test_i>>

-----------------------------------------------------------------------------
(* assign_device_addr                                                      *)

assign_device_addr_accepts(input_addr) ==
    \/ input_addr = I2C_ADDR_LL
    \/ input_addr = I2C_ADDR_HL
    \/ input_addr = I2C_ADDR_LH
    \/ input_addr = I2C_ADDR_HH

\* An assignment that stores whatever it is given.
assign_device_addr_unchecked(current, input_addr) == input_addr

\* The if / elif chain over the four addresses; the else branch keeps the
\* current address.
assign_device_addr_value(current, input_addr) ==
    IF input_addr = I2C_ADDR_LL THEN I2C_ADDR_LL
    ELSE IF input_addr = I2C_ADDR_HL THEN I2C_ADDR_HL
    ELSE IF input_addr = I2C_ADDR_LH THEN I2C_ADDR_LH
    ELSE IF input_addr = I2C_ADDR_HH THEN I2C_ADDR_HH
    ELSE current

assign_device_addr(input_addr) ==
    /\ device_addr' = assign_device_addr_value(device_addr, input_addr)
    /\ Setter("assign_device_addr", <<input_addr>>, "none",
              (~assign_device_addr_accepts(input_addr)) /\ print_status_statements)
    /\ UNCHANGED <<x_ccr, y_ccr, z_ccr, x_scaling, y_scaling, z_scaling,
                   cmx, cmy, cmz, cmm_byte, tmrc_byte, hshake_byte, bist_byte, poll_byte>>

-----------------------------------------------------------------------------
(* assign_xyz_ccr                                                          *)

\* "if not x_is_int and x_is_none": taken exactly when the argument is None
\* (None is not an int), and the method returns.
ccr_type_check_returns(ccr_in) == (~IsInt(ccr_in)) /\ IsNone(ccr_in)

\* A range check that forgets the upper limit.
ccr_range_check_negative_only(ccr_in) == IsInt(ccr_in) /\ Val(ccr_in) < 0

\* "if x_is_int and (x_ccr_in < 0 or x_ccr_in > 0xFFFF)": the method returns.
ccr_range_check_returns(ccr_in) ==
    IsInt(ccr_in) /\ (Val(ccr_in) < 0 \/ Val(ccr_in) > 65535)

\* The error checking of the three axes, in order; every one of its returns
\* comes before the first assignment.
assign_xyz_ccr_returns_early(x_ccr_in, y_ccr_in, z_ccr_in) ==
    \/ ccr_type_check_returns(x_ccr_in)
    \/ ccr_range_check_returns(x_ccr_in)
    \/ ccr_type_check_returns(y_ccr_in)
    \/ ccr_range_check_returns(y_ccr_in)
    \/ ccr_type_check_returns(z_ccr_in)
    \/ ccr_range_check_returns(z_ccr_in)

\* One axis of "ASSIGN VALUES": the cycle count is stored first, then the
\* scaling is computed; if that raises, the stored cycle count stays and the
\* scaling keeps its old value.
assign_axis(ccr, scaling, ccr_in) ==
    IF ~(ccr_in # None)
    THEN [ccr |-> ccr, scaling |-> scaling, raised |-> FALSE]
    ELSE IF cycle_count_to_scaling_raises(Val(ccr_in))
    THEN [ccr |-> Val(ccr_in), scaling |-> scaling, raised |-> TRUE]
    ELSE [ccr |-> Val(ccr_in), scaling |-> cycle_count_to_scaling(Val(ccr_in)),
          raised |-> FALSE]

\* An axis the method never got to (an earlier statement returned or raised).
skip_axis(ccr, scaling) == [ccr |-> ccr, scaling |-> scaling, raised |-> FALSE]

assign_xyz_ccr(x_ccr_in, y_ccr_in, z_ccr_in) ==
    LET early == assign_xyz_ccr_returns_early(x_ccr_in, y_ccr_in, z_ccr_in)
        rx == IF early THEN skip_axis(x_ccr, x_scaling)
              ELSE assign_axis(x_ccr, x_scaling, x_ccr_in)
        ry == IF early \/ rx.raised THEN skip_axis(y_ccr, y_scaling)
              ELSE assign_axis(y_ccr, y_scaling, y_ccr_in)
        rz == IF early \/ rx.raised \/ ry.raised THEN skip_axis(z_ccr, z_scaling)
              ELSE assign_axis(z_ccr, z_scaling, z_ccr_in)
    IN  /\ x_ccr' = rx.ccr
        /\ x_scaling' = rx.scaling
        /\ y_ccr' = ry.ccr
        /\ y_scaling' = ry.scaling
        /\ z_ccr' = rz.ccr
        /\ z_scaling' = rz.scaling
        /\ Setter("assign_xyz_ccr", <<x_ccr_in, y_ccr_in, z_ccr_in>>,
                  IF rx.raised \/ ry.raised \/ rz.raised
                  THEN "ZeroDivisionError" ELSE "none",
                  early /\ print_status_statements)
        /\ UNCHANGED <<device_addr, cmx, cmy, cmz, cmm_byte, tmrc_byte,
                       hshake_byte, bist_byte, poll_byte>>

-----------------------------------------------------------------------------
(* assign_tmrc                                                             *)

\* An assignment that stores whatever it is given.
assign_tmrc_unchecked(current, tmrc_in) == tmrc_in

\* The if / elif chain over the 14 timer codes; the else branch keeps the
\* current byte.
assign_tmrc_value(current, tmrc_in) ==
    IF tmrc_in = TMRC_600HZ THEN TMRC_600HZ
    ELSE IF tmrc_in = TMRC_300HZ THEN TMRC_300HZ
    ELSE IF tmrc_in = TMRC_150HZ THEN TMRC_150HZ
    ELSE IF tmrc_in = TMRC_75HZ THEN TMRC_75HZ
    ELSE IF tmrc_in = TMRC_37HZ THEN TMRC_37HZ
    ELSE IF tmrc_in = TMRC_18HZ THEN TMRC_18HZ
    ELSE IF tmrc_in = TMRC_9HZ THEN TMRC_9HZ
    ELSE IF tmrc_in = TMRC_4_5HZ THEN TMRC_4_5HZ
    ELSE IF tmrc_in = TMRC_2_3HZ THEN TMRC_2_3HZ
    ELSE IF tmrc_in = TMRC_1_2HZ THEN TMRC_1_2HZ
    ELSE IF tmrc_in = TMRC_0_6HZ THEN TMRC_0_6HZ
    ELSE IF tmrc_in = TMRC_0_3HZ THEN TMRC_0_3HZ
    ELSE IF tmrc_in = TMRC_0_015HZ THEN TMRC_0_015HZ
    ELSE IF tmrc_in = TMRC_0_0075HZ THEN TMRC_0_0075HZ
    ELSE current

\* The 14 codes of the chain.
TmrcCodes ==
    {TMRC_600HZ, TMRC_300HZ, TMRC_150HZ, TMRC_75HZ, TMRC_37HZ, TMRC_18HZ, TMRC_9HZ,
     TMRC_4_5HZ, TMRC_2_3HZ, TMRC_1_2HZ, TMRC_0_6HZ, TMRC_0_3HZ, TMRC_0_015HZ,
     TMRC_0_0075HZ}

\* The else branch prints whatever print_status_statements is.
assign_tmrc(tmrc_in) ==
    /\ tmrc_byte' = assign_tmrc_value(tmrc_byte, tmrc_in)
    /\ Setter("assign_tmrc", <<tmrc_in>>, "none", tmrc_in \notin TmrcCodes)
    /\ UNCHANGED <<device_addr, x_ccr, y_ccr, z_ccr, x_scaling, y_scaling, z_scaling,
                   cmx, cmy, cmz, cmm_byte, hshake_byte, bist_byte, poll_byte>>

-----------------------------------------------------------------------------
(* assign_cmm_byte, assign_hshake_byte, assign_poll_byte                   *)

\* byte |= mask when flag is true
OrIf(byte, flag, mask) == IF flag THEN BitOr(byte, mask) ELSE byte

\* An assign_cmm_byte that ORs the new bits into the byte it finds.
assign_cmm_byte_ors_into(cmx_in, cmy_in, cmz_in, drdm, cmm_start) ==
    /\ cmx' = cmx_in
    /\ cmy' = cmy_in
    /\ cmz' = cmz_in
    /\ cmm_byte' =
         OrIf(OrIf(OrIf(OrIf(OrIf(cmm_byte, cmx_in, CMM_CMX), cmy_in, CMM_CMY),
                        cmz_in, CMM_CMZ), drdm, CMM_DRDM), cmm_start, CMM_START)

\* The fields assign_cmm_byte assigns (lines 486-509).
assign_cmm_byte_fields(cmx_in, cmy_in, cmz_in, drdm, cmm_start) ==
    /\ cmx' = cmx_in
    /\ cmy' = cmy_in
    /\ cmz' = cmz_in
    /\ cmm_byte' =
         OrIf(OrIf(OrIf(OrIf(OrIf(0, cmx_in, CMM_CMX), cmy_in, CMM_CMY),
                        cmz_in, CMM_CMZ), drdm, CMM_DRDM), cmm_start, CMM_START)

assign_cmm_byte(cmx_in, cmy_in, cmz_in, drdm, cmm_start) ==
    /\ assign_cmm_byte_fields(cmx_in, cmy_in, cmz_in, drdm, cmm_start)
    /\ Setter("assign_cmm_byte", <<cmx_in, cmy_in, cmz_in, drdm, cmm_start>>,
              "none", FALSE)
    /\ UNCHANGED <<device_addr, x_ccr, y_ccr, z_ccr, x_scaling, y_scaling, z_scaling,
                   tmrc_byte, hshake_byte, bist_byte, poll_byte>>

\* An assign_hshake_byte that ORs the new bits into the byte it finds.
assign_hshake_byte_ors_into(drc1, drc0) ==
    /\ hshake_byte' = OrIf(OrIf(hshake_byte, drc1, HSHAKE_DRC1), drc0, HSHAKE_DRC0)
    /\ Setter("assign_hshake_byte", <<drc1, drc0>>, "none", FALSE)
    /\ UNCHANGED <<device_addr, x_ccr, y_ccr, z_ccr, x_scaling, y_scaling, z_scaling,
                   cmx, cmy, cmz, cmm_byte, tmrc_byte, bist_byte, poll_byte>>

assign_hshake_byte(drc1, drc0) ==
    /\ hshake_byte' = OrIf(OrIf(0, drc1, HSHAKE_DRC1), drc0, HSHAKE_DRC0)
    /\ Setter("assign_hshake_byte", <<drc1, drc0>>, "none", FALSE)
    /\ UNCHANGED <<device_addr, x_ccr, y_ccr, z_ccr, x_scaling, y_scaling, z_scaling,
                   cmx, cmy, cmz, cmm_byte, tmrc_byte, bist_byte, poll_byte>>

\* An assign_poll_byte that ORs the new requests into the pending ones.
assign_poll_byte_ors_into(poll_x, poll_y, poll_z) ==
    /\ poll_byte' = OrIf(OrIf(OrIf(poll_byte, poll_x, POLL_PMX), poll_y, POLL_PMY),
                         poll_z, POLL_PMZ)
    /\ Setter("assign_poll_byte", <<poll_x, poll_y, poll_z>>, "none", FALSE)
    /\ UNCHANGED <<device_addr, x_ccr, y_ccr, z_ccr, x_scaling, y_scaling, z_scaling,
                   cmx, cmy, cmz, cmm_byte, tmrc_byte, hshake_byte, bist_byte>>

assign_poll_byte(poll_x, poll_y, poll_z) ==
    /\ poll_byte' = OrIf(OrIf(OrIf(0, poll_x, POLL_PMX), poll_y, POLL_PMY),
                         poll_z, POLL_PMZ)
    /\ Setter("assign_poll_byte", <<poll_x, poll_y, poll_z>>, "none", FALSE)
    /\ UNCHANGED <<device_addr, x_ccr, y_ccr, z_ccr, x_scaling, y_scaling, z_scaling,
                   cmx, cmy, cmz, cmm_byte, tmrc_byte, hshake_byte, bist_byte>>

-----------------------------------------------------------------------------
(* assign_bist_timeout, assign_bist_lrp, assign_bist_ste                   *)

assign_bist_timeout_accepts(timeout) ==
    \/ timeout = BIST_TO_30us
    \/ timeout = BIST_TO_60us
    \/ timeout = BIST_TO_120us

\* An update that clears the whole low nibble instead of the two timeout bits.
assign_bist_timeout_clears_nibble(current, timeout) ==
    IF assign_bist_timeout_accepts(timeout)
    THEN BitOr(BitAndNot(current, 15), timeout)
    ELSE current

\* bist_byte &= ~(BIST_BW0 + BIST_BW1); bist_byte |= timeout
assign_bist_timeout_value(current, timeout) ==
    IF assign_bist_timeout_accepts(timeout)
    THEN BitOr(BitAndNot(current, BIST_BW0 + BIST_BW1), timeout)
    ELSE current

assign_bist_timeout(timeout) ==
    /\ bist_byte' = assign_bist_timeout_value(bist_byte, timeout)
    /\ Setter("assign_bist_timeout", <<timeout>>, "none",
              (~assign_bist_timeout_accepts(timeout)) /\ print_status_statements)
    /\ UNCHANGED <<device_addr, x_ccr, y_ccr, z_ccr, x_scaling, y_scaling, z_scaling,
                   cmx, cmy, cmz, cmm_byte, tmrc_byte, hshake_byte, poll_byte>>

\* A check that lets every two-bit value through, 0x00 included.
assign_bist_lrp_accepts_two_bits(lrp) ==
    lrp \in 0..3

assign_bist_lrp_accepts(lrp) ==
    \/ lrp = BIST_LRP_1
    \/ lrp = BIST_LRP_2
    \/ lrp = BIST_LRP_4

\* An update that clears the timeout bits along with the period bits.
assign_bist_lrp_clears_nibble(current, lrp) ==
    IF assign_bist_lrp_accepts(lrp)
    THEN BitOr(BitAndNot(current, 15), lrp)
    ELSE current

\* bist_byte &= ~(BIST_BP0 + BIST_BP1); bist_byte |= lrp
assign_bist_lrp_value(current, lrp) ==
    IF assign_bist_lrp_accepts(lrp)
    THEN BitOr(BitAndNot(current, BIST_BP0 + BIST_BP1), lrp)
    ELSE current

assign_bist_lrp(lrp) ==
    /\ bist_byte' = assign_bist_lrp_value(bist_byte, lrp)
    /\ Setter("assign_bist_lrp", <<lrp>>, "none",
              (~assign_bist_lrp_accepts(lrp)) /\ print_status_statements)
    /\ UNCHANGED <<device_addr, x_ccr, y_ccr, z_ccr, x_scaling, y_scaling, z_scaling,
                   cmx, cmy, cmz, cmm_byte, tmrc_byte, hshake_byte, poll_byte>>

assign_bist_ste(ste) ==
    /\ bist_byte' = IF ste THEN BitOr(bist_byte, BIST_STE)
                    ELSE BitAndNot(bist_byte, BIST_STE)
    /\ Setter("assign_bist_ste", <<ste>>, "none", FALSE)
    /\ UNCHANGED <<device_addr, x_ccr, y_ccr, z_ccr, x_scaling, y_scaling, z_scaling,
                   cmx, cmy, cmz, cmm_byte, tmrc_byte, hshake_byte, poll_byte>>

-----------------------------------------------------------------------------
(* Bus transactions (smbus write_byte_data / write_word_data).             *)

\* write_byte_data(device_addr, reg, val): one byte into one register.
BusWriteByte(reg, val) ==
    /\ dev' = [dev EXCEPT ![device_addr][reg] = val]
    /\ bus' = Append(bus, [op |-> "write_byte", addr |-> device_addr,
                           reg |-> reg, val |-> val])

\* write_word_data(device_addr, reg, val): SMBus sends the low byte first,
\* the device stores it at reg and the high byte at reg + 1.
BusWriteWord(reg, val) ==
    /\ dev' = [dev EXCEPT ![device_addr][reg] = val % 256,
                          ![device_addr][reg + 1] = val \div 256]
    /\ bus' = Append(bus, [op |-> "write_word", addr |-> device_addr,
                           reg |-> reg, val |-> val])

-----------------------------------------------------------------------------
(* write_config                                                            *)

\* A body that starts continuous mode before the timer is written.
write_config_cmm_before_tmrc ==
    <<"write_bist", "write_poll", "write_ccr_x", "write_ccr_y", "write_ccr_z",
      "write_cmm", "write_tmrc", "write_hshake">>

\* A body that writes the handshake register after the continuous-mode register.
write_config_cmm_before_hshake ==
    <<"write_bist", "write_poll", "write_ccr_x", "write_ccr_y", "write_ccr_z",
      "write_tmrc", "write_cmm", "write_hshake">>

\* A body that leaves the timer register out.
write_config_without_tmrc ==
    <<"write_bist", "write_poll", "write_ccr_x", "write_ccr_y", "write_ccr_z",
      "write_hshake", "write_cmm">>

\* The bus transactions of write_config's body, in program order: write_bist,
\* write_poll, write_ccr (x, y, z), write_tmrc, write_hshake, write_cmm.
write_config_steps ==
    <<"write_bist", "write_poll", "write_ccr_x", "write_ccr_y", "write_ccr_z",
      "write_tmrc", "write_hshake", "write_cmm">>

\* A self_test that triggers the test before it writes the BIST register.
self_test_poll_before_bist == <<"write_cmm", "write_poll", "write_bist", "read_status">>

\* What self_test does on the bus before its loop, in program order (lines
\* 1053-1060): write_cmm, write_bist, write_poll; then the first read_status.
self_test_steps == <<"write_cmm", "write_bist", "write_poll", "read_status">>

\* A write_ccr that sends the z count first.
write_ccr_z_first == <<"write_ccr_z", "write_ccr_y", "write_ccr_x">>

\* The bus transactions of write_ccr's body, in program order (lines 709-725).
write_ccr_steps == <<"write_ccr_x", "write_ccr_y", "write_ccr_z">>

\* The bus transactions of init_rm3100 of the function-style module, in
\* program order (smbus_pni_rm3100.py lines 218-241): every write is followed
\* by a read of the register just written.
init_rm3100_steps ==
    <<"write_bist", "read_bist_back", "write_poll", "read_poll_back",
      "write_ccr_x", "write_ccr_y", "write_ccr_z",
      "read_ccr_x", "read_ccr_y", "read_ccr_z",
      "write_tmrc", "read_tmrc_back", "write_hshake", "read_hshake_back",
      "write_cmm", "read_cmm_back">>

\* The steps of the call in progress.
CallSteps ==
    CASE last.op = "self_test" -> self_test_steps
      [] last.op = "write_ccr" -> write_ccr_steps
      [] last.op = "init_rm3100" -> init_rm3100_steps
      [] OTHER -> write_config_steps

\* Where control goes after `step`: the next transaction, or back to the
\* caller after the last one.
StepAfter(step) ==
    LET i == CHOOSE k \in 1..Len(CallSteps) : CallSteps[k] = step
    IN  IF i = Len(CallSteps) THEN "idle" ELSE CallSteps[i + 1]

\* A transaction of a call in progress changes no field of the object.
InCall(step) ==
    /\ pc = step
    /\ pc' = StepAfter(step)
    /\ UNCHANGED <<cfgvars, print_status_statements, last, pre, retval, self_test_i>>

\* Entry of write_config.
write_config ==
    /\ pc = "idle"
    /\ pc' = write_config_steps[1]
    /\ pre' = Cfg
    /\ last' = Outcome("write_config", <<>>, "none", FALSE)
    /\ bus' = <<>>
    /\ retval' = None
    /\ UNCHANGED <<cfgvars, print_status_statements, dev, self_test_i>>

\* Entry of write_ccr called on its own; it returns the tuple of what the
\* three write_word_data calls returned, None each.
write_ccr ==
    /\ pc = "idle"
    /\ pc' = write_ccr_steps[1]
    /\ pre' = Cfg
    /\ last' = Outcome("write_ccr", <<>>, "none", FALSE)
    /\ bus' = <<>>
    /\ retval' = <<None, None, None>>
    /\ UNCHANGED <<cfgvars, print_status_statements, dev, self_test_i>>

write_bist == InCall("write_bist") /\ BusWriteByte(BIST_REGISTER_ADDR, bist_byte)

write_poll == InCall("write_poll") /\ BusWriteByte(POLL_REGISTER_ADDR, poll_byte)

write_ccr_x ==
    InCall("write_ccr_x") /\ BusWriteWord(CCR_REGISTER_ADDR, endian_swap_int16(x_ccr))

write_ccr_y ==
    InCall("write_ccr_y") /\ BusWriteWord(CCR_REGISTER_ADDR + 2, endian_swap_int16(y_ccr))

write_ccr_z ==
    InCall("write_ccr_z") /\ BusWriteWord(CCR_REGISTER_ADDR + 4, endian_swap_int16(z_ccr))

write_tmrc == InCall("write_tmrc") /\ BusWriteByte(TMRC_REGISTER_ADDR, tmrc_byte)

write_hshake == InCall("write_hshake") /\ BusWriteByte(HSHAKE_REGISTER_ADDR, hshake_byte)

write_cmm == InCall("write_cmm") /\ BusWriteByte(CMM_REGISTER_ADDR, cmm_byte)

-----------------------------------------------------------------------------
(* A bus write that fails.                                                 *)

\* The write methods a call can be about to run, and the register each writes.
WriteSteps ==
    {"write_bist", "write_poll", "write_ccr_x", "write_ccr_y", "write_ccr_z",
     "write_tmrc", "write_hshake", "write_cmm"}

StepRegister(step) ==
    CASE step = "write_bist" -> BIST_REGISTER_ADDR
      [] step = "write_poll" -> POLL_REGISTER_ADDR
      [] step = "write_ccr_x" -> CCR_REGISTER_ADDR
      [] step = "write_ccr_y" -> CCR_REGISTER_ADDR + 2
      [] step = "write_ccr_z" -> CCR_REGISTER_ADDR + 4
      [] step = "write_tmrc" -> TMRC_REGISTER_ADDR
      [] step = "write_hshake" -> HSHAKE_REGISTER_ADDR
      [] step = "write_cmm" -> CMM_REGISTER_ADDR

\* The transaction attempted and not acknowledged.
FailedWrite(step) ==
    [op |-> "error", addr |-> device_addr, reg |-> StepRegister(step), val |-> 0]

\* A caller that catches the error of a write and goes on with the next one.
write_error_swallowed ==
    /\ pc \in WriteSteps
    /\ bus' = Append(bus, FailedWrite(pc))
    /\ pc' = StepAfter(pc)
    /\ last' = [last EXCEPT !.exc = "OSError"]
    /\ UNCHANGED <<cfgvars, print_status_statements, dev, pre, retval, self_test_i>>

\* The write the call is about to make fails: write_byte_data /
\* write_word_data raises OSError, the device keeps what it had, and since no
\* method of the driver has a try statement the exception leaves the call.
write_raises_OSError ==
    /\ pc \in WriteSteps
    /\ bus' = Append(bus, FailedWrite(pc))
    /\ pc' = "idle"
    /\ last' = [last EXCEPT !.exc = "OSError"]
    /\ UNCHANGED <<cfgvars, print_status_statements, dev, pre, retval, self_test_i>>

-----------------------------------------------------------------------------
(* A second session writing its configuration to the same device.         *)

\* The second object's fields: the defaults changed by assign_xyz_ccr(0x0102,
\* 0x0304, 0x0506), assign_tmrc(TMRC_600HZ), assign_cmm_byte(True, False,
\* False, False, False), assign_hshake_byte(True, False),
\* assign_bist_ste(True) and assign_poll_byte(True, True, True).
PeerCfg ==
    [device_addr |-> I2C_ADDR_LL,
     x_ccr |-> 258, y_ccr |-> 772, z_ccr |-> 1286,
     x_scaling |-> cycle_count_to_scaling(258),
     y_scaling |-> cycle_count_to_scaling(772),
     z_scaling |-> cycle_count_to_scaling(1286),
     cmx |-> TRUE, cmy |-> FALSE, cmz |-> FALSE,
     cmm_byte |-> CMM_CMX, tmrc_byte |-> TMRC_600HZ, hshake_byte |-> HSHAKE_DRC1,
     bist_byte |-> BitOr(BitOr(BIST_TO_120us, BIST_LRP_4), BIST_STE),
     poll_byte |-> POLL_PMX + POLL_PMY + POLL_PMZ]

\* The device registers after the write method `step` of an object with
\* fields c has succeeded.
DevAfter(step, c) ==
    LET a == c.device_addr
        word(reg, ccr) ==
            [dev EXCEPT ![a][reg] = endian_swap_int16(ccr) % 256,
                        ![a][reg + 1] = endian_swap_int16(ccr) \div 256]
    IN  CASE step = "write_bist" -> [dev EXCEPT ![a][BIST_REGISTER_ADDR] = c.bist_byte]
          [] step = "write_poll" -> [dev EXCEPT ![a][POLL_REGISTER_ADDR] = c.poll_byte]
          [] step = "write_ccr_x" -> word(CCR_REGISTER_ADDR, c.x_ccr)
          [] step = "write_ccr_y" -> word(CCR_REGISTER_ADDR + 2, c.y_ccr)
          [] step = "write_ccr_z" -> word(CCR_REGISTER_ADDR + 4, c.z_ccr)
          [] step = "write_tmrc" -> [dev EXCEPT ![a][TMRC_REGISTER_ADDR] = c.tmrc_byte]
          [] step = "write_hshake" ->
                [dev EXCEPT ![a][HSHAKE_REGISTER_ADDR] = c.hshake_byte]
          [] step = "write_cmm" -> [dev EXCEPT ![a][CMM_REGISTER_ADDR] = c.cmm_byte]

\* What the first session's variables do while the second one runs: nothing.
PeerFrame ==
    UNCHANGED <<cfgvars, print_status_statements, bus, pc, calls, last, pre,
                retval, self_test_i>>

\* Taking the callers' lock, when they have one, and giving it back.
Acquire(who) ==
    /\ mutex \in {"unused", "free"}
    /\ mutex' = IF mutex = "free" THEN who ELSE mutex

ReleaseIf(returns, who) ==
    mutex' = IF returns /\ mutex = who THEN "free" ELSE mutex

\* The callers of both sessions agree, before either writes, to take one lock
\* around every write_config.
adopt_mutex ==
    /\ mutex = "unused"
    /\ pc = "idle" /\ last.op = "__init__"
    /\ peer = [pc |-> "idle", done |-> FALSE]
    /\ mutex' = "free"
    /\ UNCHANGED <<cfgvars, print_status_statements, dev, bus, pc, calls, last, pre,
                   retval, self_test_i, peer>>

\* Entry of the second session's write_config.
peer_write_config ==
    /\ peer.pc = "idle"
    /\ Acquire("peer")
    /\ peer' = [peer EXCEPT !.pc = write_config_steps[1]]
    /\ UNCHANGED dev
    /\ PeerFrame

\* The next write of the second session's write_config.
peer_write ==
    /\ peer.pc \in WriteSteps
    /\ dev' = DevAfter(peer.pc, PeerCfg)
    /\ LET i == CHOOSE k \in 1..Len(write_config_steps) :
                    write_config_steps[k] = peer.pc
           returns == i = Len(write_config_steps)
       IN  /\ peer' = IF returns THEN [pc |-> "idle", done |-> TRUE]
                      ELSE [peer EXCEPT !.pc = write_config_steps[i + 1]]
           /\ ReleaseIf(returns, "peer")
    /\ PeerFrame

\* The first session's write_config and its writes, next to the second one.
own_write_config ==
    /\ Acquire("own")
    /\ write_config
    /\ UNCHANGED <<calls, peer>>

OwnWrite(step) ==
    /\ step
    /\ ReleaseIf(pc' = "idle", "own")
    /\ UNCHANGED <<calls, peer>>

-----------------------------------------------------------------------------
(* read_meas_x, read_meas_y, read_meas_z, read_meas                        *)

\* read_i2c_block_data(device_addr, reg, 3) answered by the device with `data`.
BlockRead(reg, data) ==
    [op |-> "read_block", addr |-> device_addr, reg |-> reg, val |-> data]

\* A register map with one measurement address for every axis.
meas_register_same_for_all(axis) == MEAS_REGISTER_ADDR

\* The first of the three measurement registers of an axis: MEAS_REGISTER_ADDR,
\* + 0x03, + 0x06 (lines 921, 961, 1001).
meas_register(axis) ==
    CASE axis = "x" -> MEAS_REGISTER_ADDR
      [] axis = "y" -> MEAS_REGISTER_ADDR + 3
      [] axis = "z" -> MEAS_REGISTER_ADDR + 6

\* The body of a read_meas_<axis> whose `if` evaluated to `reads`, entered
\* with poll byte pb; `single` is poll_byte & POLL_PM<axis>.  With nothing to
\* read the value is None, which the status print cannot format.
AxisBody(axis, reads, single, mask, pb, data) ==
    IF reads
    THEN [exc |-> "none",
          txn |-> <<BlockRead(meas_register(axis), data)>>,
          poll |-> IF single # 0 THEN BitAndNot(pb, mask) ELSE pb,
          printed |-> print_status_statements]
    ELSE [exc |-> IF print_status_statements THEN "TypeError" ELSE "none",
          txn |-> <<>>, poll |-> pb, printed |-> FALSE]

\* An exception raised by the `if` itself, before anything else happens.
RaisedBody(exc, pb) ==
    [exc |-> exc, txn |-> <<>>, poll |-> pb, printed |-> FALSE]

\* The value a body hands back: the three bytes read, as a big-endian unsigned
\* integer, converted by uint24_to_int24 and multiplied by the axis scaling
\* (kept as numerator and denominator); None when nothing was read.
AxisValue(r, scaling) ==
    IF r.exc = "none" /\ r.txn # <<>>
    THEN Some(<<uint24_to_int24(from_bytes_big(r.txn[1].val)) * scaling[1], scaling[2]>>)
    ELSE None

\* A read_meas_x that leaves a pending single measurement pending.
read_meas_x_keeps_pending(pb, data) ==
    AxisBody("x", cmx \/ BitAnd(pb, POLL_PMX) # 0, 0, POLL_PMX, pb, data)

\* A read_meas_x that clears every pending request, not only its own.
read_meas_x_clears_all_pending(pb, data) ==
    LET single_meas_x == BitAnd(pb, POLL_PMX)
    IN  AxisBody("x", cmx \/ single_meas_x # 0, single_meas_x,
                 POLL_PMX + POLL_PMY + POLL_PMZ, pb, data)

\* read_meas_x: `if self.cmx or single_meas_x`
read_meas_x_body(pb, data) ==
    LET single_meas_x == BitAnd(pb, POLL_PMX)
    IN  AxisBody("x", cmx \/ single_meas_x # 0, single_meas_x, POLL_PMX, pb, data)

\* read_meas_y: `if self.cmy or single_meas_y`
read_meas_y_body(pb, data) ==
    LET single_meas_y == BitAnd(pb, POLL_PMY)
    IN  AxisBody("y", cmy \/ single_meas_y # 0, single_meas_y, POLL_PMY, pb, data)

\* read_meas_z: `if self.cmy or single_meas_y` (line 998).  The function
\* assigns single_meas_z only, so the name single_meas_y is looked up only
\* when self.cmy is false, and the lookup raises NameError.
read_meas_z_body(pb, data) ==
    LET single_meas_z == BitAnd(pb, POLL_PMZ)
    IN  IF cmy
        THEN AxisBody("z", TRUE, single_meas_z, POLL_PMZ, pb, data)
        ELSE RaisedBody("NameError", pb)

\* A call of one of the read methods: r is what its body did, value what it
\* returned (None after an exception) and ret the kind of that value.
ReadCall(op, r, value, ret) ==
    /\ pc = "idle"
    /\ pre' = Cfg
    /\ poll_byte' = r.poll
    /\ bus' = r.txn
    /\ retval' = value
    /\ last' = [op |-> op, args |-> <<>>, exc |-> r.exc, ret |-> ret,
                printed |-> r.printed]
    /\ UNCHANGED <<device_addr, x_ccr, y_ccr, z_ccr, x_scaling, y_scaling, z_scaling,
                   cmx, cmy, cmz, cmm_byte, tmrc_byte, hshake_byte, bist_byte,
                   print_status_statements, dev, pc, self_test_i>>

\* A failed block read that has already consumed the pending request.
read_meas_raises_after_consuming(op, r) ==
    /\ r.exc = "none"
    /\ r.txn # <<>>
    /\ ReadCall(op, [exc |-> "OSError",
                     txn |-> <<[op |-> "error", addr |-> device_addr,
                                reg |-> r.txn[1].reg, val |-> 0]>>,
                     poll |-> r.poll, printed |-> FALSE],
                None, "None")

\* A read_meas_<axis> whose body r gets to read_i2c_block_data (lines 920,
\* 960) and whose bus raises OSError there: the exception leaves the method
\* at once, before the pending bit is cleared (lines 933-934, 973-974).
read_meas_raises_OSError(op, r) ==
    /\ r.exc = "none"
    /\ r.txn # <<>>
    /\ ReadCall(op, [exc |-> "OSError",
                     txn |-> <<[op |-> "error", addr |-> device_addr,
                                reg |-> r.txn[1].reg, val |-> 0]>>,
                     poll |-> poll_byte, printed |-> FALSE],
                None, "None")

\* The kind of value a read_meas_<axis> returns.
AxisRet(r) == IF r.exc = "none" /\ r.txn # <<>> THEN "value" ELSE "None"

read_meas_x(data) ==
    LET r == read_meas_x_body(poll_byte, data)
    IN  ReadCall("read_meas_x", r, AxisValue(r, x_scaling), AxisRet(r))

read_meas_y(data) ==
    LET r == read_meas_y_body(poll_byte, data)
    IN  ReadCall("read_meas_y", r, AxisValue(r, y_scaling), AxisRet(r))

read_meas_z(data) ==
    LET r == read_meas_z_body(poll_byte, data)
    IN  ReadCall("read_meas_z", r, AxisValue(r, z_scaling), AxisRet(r))

\* read_meas: read_meas_x, read_meas_y, read_meas_z one after the other, each
\* entered with the poll byte the one before left; the first exception ends
\* the call, otherwise the list [x, y, z] is returned.
read_meas(xdata, ydata, zdata) ==
    LET x == read_meas_x_body(poll_byte, xdata)
        y == read_meas_y_body(x.poll, ydata)
        z == read_meas_z_body(y.poll, zdata)
        r == IF x.exc # "none" THEN x
             ELSE IF y.exc # "none"
                  THEN [y EXCEPT !.txn = x.txn \o y.txn,
                                 !.printed = x.printed \/ y.printed]
             ELSE [z EXCEPT !.txn = x.txn \o y.txn \o z.txn,
                            !.printed = x.printed \/ y.printed \/ z.printed]
    IN  IF r.exc = "none"
        THEN ReadCall("read_meas", r,
                      <<AxisValue(x, x_scaling), AxisValue(y, y_scaling),
                        AxisValue(z, z_scaling)>>, "list")
        ELSE ReadCall("read_meas", r, None, "None")

-----------------------------------------------------------------------------
(* self_test                                                               *)

\* read_byte_data(device_addr, reg) answered by the device with val.
BusReadByte(reg, val) ==
    /\ bus' = Append(bus, [op |-> "read_byte", addr |-> device_addr,
                           reg |-> reg, val |-> val])
    /\ UNCHANGED dev

\* A self_test that leaves the continuous-mode fields as it finds them.
self_test_keeps_cmm(attempt_num) ==
    /\ pc = "idle"
    /\ pre' = Cfg
    /\ last' = Outcome("self_test", <<attempt_num>>, "none", FALSE)
    /\ pc' = self_test_steps[1]
    /\ bus' = <<>>
    /\ retval' = None
    /\ self_test_i' = 0
    /\ UNCHANGED <<cfgvars, print_status_statements, dev>>

\* Entry of self_test(attempt_num): assign_cmm_byte with every flag False,
\* then i = 0 (lines 1051, 1063).
self_test(attempt_num) ==
    /\ pc = "idle"
    /\ pre' = Cfg
    /\ assign_cmm_byte_fields(FALSE, FALSE, FALSE, FALSE, FALSE)
    /\ last' = Outcome("self_test", <<attempt_num>>, "none", FALSE)
    /\ pc' = self_test_steps[1]
    /\ bus' = <<>>
    /\ retval' = None
    /\ self_test_i' = 0
    /\ UNCHANGED <<device_addr, x_ccr, y_ccr, z_ccr, x_scaling, y_scaling, z_scaling,
                   tmrc_byte, hshake_byte, bist_byte, poll_byte,
                   print_status_statements, dev>>

\* The loop condition `(not self.read_status()) and (i < attempt_num)` (line
\* 1064), read_status having just returned data_is_ready.
self_test_loop_continues(data_is_ready, i, attempt_num) ==
    (~data_is_ready) /\ (i < attempt_num)

\* One evaluation of the loop condition: read_status reads STATUS and tests
\* DRDY; the loop either goes round (i += 1, sleep) or ends, and after the
\* loop `if i == attempt_num` returns None (lines 1064-1071).
read_status(status_val) ==
    LET data_is_ready == BitAnd(status_val, STATUS_DRDY) # 0
        attempt_num == last.args[1]
    IN  /\ pc = "read_status"
        /\ BusReadByte(STATUS_REGISTER_ADDR, status_val)
        /\ IF self_test_loop_continues(data_is_ready, self_test_i, attempt_num)
           THEN /\ self_test_i' = self_test_i + 1
                /\ pc' = "read_status"
                /\ UNCHANGED last
           ELSE IF self_test_i = attempt_num
           THEN /\ pc' = "idle"
                /\ last' = [last EXCEPT !.printed = print_status_statements]
                /\ UNCHANGED self_test_i
           ELSE /\ pc' = "read_bist"
                /\ UNCHANGED <<last, self_test_i>>
        /\ UNCHANGED <<cfgvars, print_status_statements, pre, retval>>

\* read_bist and the return of its value (lines 1074-1091).
read_bist(bist_value) ==
    /\ pc = "read_bist"
    /\ BusReadByte(BIST_REGISTER_ADDR, bist_value)
    /\ pc' = "idle"
    /\ retval' = Some(bist_value)
    /\ last' = [last EXCEPT !.ret = "value", !.printed = print_status_statements]
    /\ UNCHANGED <<cfgvars, print_status_statements, pre, self_test_i>>

-----------------------------------------------------------------------------
(* init_rm3100 of the function-style module.                               *)

\* Entry of init_rm3100(i2cbus, pni3100_object).
init_rm3100 ==
    /\ pc = "idle"
    /\ pc' = init_rm3100_steps[1]
    /\ pre' = Cfg
    /\ last' = Outcome("init_rm3100", <<>>, "none", FALSE)
    /\ bus' = <<>>
    /\ retval' = None
    /\ UNCHANGED <<cfgvars, print_status_statements, dev, self_test_i>>

\* read_bist, read_poll, read_tmrc, read_hshake, read_cmm: read_byte_data of
\* the register, answered with the byte the device holds; init_rm3100 drops
\* the value.
read_back(step, reg) ==
    /\ InCall(step)
    /\ bus' = Append(bus, [op |-> "read_byte", addr |-> device_addr,
                           reg |-> reg, val |-> dev[device_addr][reg]])
    /\ UNCHANGED dev

\* One read_word_data of read_ccr: the byte at reg is the low byte of the
\* word read.
read_word_back(step, reg) ==
    /\ InCall(step)
    /\ bus' = Append(bus, [op |-> "read_word", addr |-> device_addr, reg |-> reg,
                           val |-> dev[device_addr][reg]
                                     + 256 * dev[device_addr][reg + 1]])
    /\ UNCHANGED dev

\* The device's continuous measurement mode after the transactions of log:
\* a write of CMM with the START bit starts it, a write of TMRC or a read of
\* CMM ends it (notes at CMM_START, pni_rm3100.py lines 88-90).
RECURSIVE ContinuousModeAfter(_)
ContinuousModeAfter(log) ==
    IF log = <<>> THEN FALSE
    ELSE LET t == log[Len(log)]
             before == ContinuousModeAfter(SubSeq(log, 1, Len(log) - 1))
         IN  CASE t.op = "write_byte" /\ t.reg = CMM_REGISTER_ADDR ->
                      BitAnd(t.val, CMM_START) # 0
               [] t.op = "write_byte" /\ t.reg = TMRC_REGISTER_ADDR -> FALSE
               [] t.op = "read_byte" /\ t.reg = CMM_REGISTER_ADDR -> FALSE
               [] OTHER -> before

-----------------------------------------------------------------------------
(* Calls of uint24_to_int24 and endian_swap_int16.                         *)

\* The return of a call of a method that only computes a value from its
\* argument.
Returns(op, value) ==
    /\ pc = op
    /\ pc' = "idle"
    /\ retval' = Some(value)
    /\ last' = [last EXCEPT !.ret = "value"]
    /\ UNCHANGED <<cfgvars, print_status_statements, dev, bus, pre, self_test_i>>

return_uint24_to_int24 ==
    Returns("uint24_to_int24", uint24_to_int24(last.args[1]))

return_endian_swap_int16 ==
    Returns("endian_swap_int16", endian_swap_int16(last.args[1]))

-----------------------------------------------------------------------------
(* The driver's callers.                                                   *)

\* A method call, counted.
Counted(max) == calls < max /\ calls' = calls + 1 /\ UNCHANGED <<peer, mutex>>
\* A step that is no new call.
Free == calls' = calls /\ UNCHANGED <<peer, mutex>>

\* Arguments tried for each method when its group of methods is explored on
\* its own: every accepted value and the values around and far from the
\* accepted ranges.
AddrInputs == 31..36
CcrInputs == {None, Some(0 - 1), Some(0), Some(65535), Some(65536)}
TmrcInputs == {TMRC_REGISTER_ADDR} \cup (145..160)
BistTimeoutInputs == {0, 1, 4, 8, 12, 16, 128}
BistLrpInputs == {0, 1, 2, 3, 4, 16, 128}

\* Any sequence of assign_xyz_ccr calls.
NextCcr ==
    \/ \E flag \in BOOLEAN : Free /\ set_print_status_statements(flag)
    \/ \E x, y, z \in CcrInputs : Free /\ assign_xyz_ccr(x, y, z)

SpecCcr == Init /\ [][NextCcr]_vars

\* Any sequence of assign_device_addr and assign_tmrc calls.
NextAddrTmrc ==
    \/ \E flag \in BOOLEAN : Free /\ set_print_status_statements(flag)
    \/ \E a \in AddrInputs : Free /\ assign_device_addr(a)
    \/ \E t \in TmrcInputs : Free /\ assign_tmrc(t)

SpecAddrTmrc == Init /\ [][NextAddrTmrc]_vars

\* Any sequence of assign_bist_timeout, assign_bist_lrp and assign_bist_ste calls.
NextBist ==
    \/ \E flag \in BOOLEAN : Free /\ set_print_status_statements(flag)
    \/ \E t \in BistTimeoutInputs : Free /\ assign_bist_timeout(t)
    \/ \E l \in BistLrpInputs : Free /\ assign_bist_lrp(l)
    \/ \E e \in BOOLEAN : Free /\ assign_bist_ste(e)

SpecBist == Init /\ [][NextBist]_vars

\* Blocks of three bytes a device answers a measurement read with: the largest
\* and the most negative 24-bit value.
MeasData == {<<127, 255, 255>>, <<128, 0, 0>>}

\* Any sequence of reads, with any axes enabled and any single measurements
\* requested in between.
NextRead ==
    \/ \E flag \in BOOLEAN : Free /\ set_print_status_statements(flag)
    \/ \E a \in {I2C_ADDR_LL, I2C_ADDR_HH} : Free /\ assign_device_addr(a)
    \/ \E x, y, z \in BOOLEAN : Free /\ assign_cmm_byte(x, y, z, TRUE, TRUE)
    \/ \E x, y, z \in BOOLEAN : Free /\ assign_poll_byte(x, y, z)
    \/ \E d \in MeasData : Free /\ read_meas_x(d)
    \/ \E d \in MeasData : Free /\ read_meas_y(d)
    \/ \E d \in MeasData : Free /\ read_meas_z(d)
    \/ \E xd, yd, zd \in MeasData : Free /\ read_meas(xd, yd, zd)

SpecRead == Init /\ [][NextRead]_vars

\* A caller that requests a single x measurement with continuous mode off for
\* x and then calls read_meas_x twice: call 1 is assign_cmm_byte, call 2
\* assign_poll_byte, calls 3 and 4 read_meas_x.
NextSingleShot ==
    \/ \E y, z, drdm, start \in BOOLEAN :
          calls = 0 /\ Counted(1) /\ assign_cmm_byte(FALSE, y, z, drdm, start)
    \/ \E y, z \in BOOLEAN : calls = 1 /\ Counted(2) /\ assign_poll_byte(TRUE, y, z)
    \/ \E d \in MeasData : calls \in {2, 3} /\ Counted(4) /\ read_meas_x(d)

SpecSingleShot == Init /\ [][NextSingleShot]_vars

\* The largest attempt budget tried for self_test.
MaxAttempts == 3

\* Budgets from -1 to MaxAttempts, and what the device answers: a STATUS byte
\* with DRDY clear (0x00, 0x7F) or set (0x80), a BIST byte with the three OK
\* bits set or clear.
AttemptInputs == (0 - 1)..MaxAttempts
StatusData == {0, 127, STATUS_DRDY}
BistData == {BitOr(BitOr(BIST_XOK, BIST_YOK), BIST_ZOK) + BIST_LRP_4, BIST_LRP_4}

\* Any sequence of self_test calls, the BIST and POLL bytes being changed in
\* between.
NextSelfTest ==
    \/ \E flag \in BOOLEAN : Free /\ set_print_status_statements(flag)
    \/ \E e \in BOOLEAN : Free /\ assign_bist_ste(e)
    \/ \E q \in BOOLEAN : Free /\ assign_poll_byte(q, q, q)
    \/ \E n \in AttemptInputs : Free /\ self_test(n)
    \/ Free /\ write_cmm
    \/ Free /\ write_bist
    \/ Free /\ write_poll
    \/ \E v \in StatusData : Free /\ read_status(v)
    \/ \E v \in BistData : Free /\ read_bist(v)

SpecSelfTest == Init /\ [][NextSelfTest]_vars

\* A step of a self_test call in progress. The body is straight-line code and
\* a loop around a blocking bus read and a sleep of one second: once called,
\* it keeps running, whatever the device answers.
self_test_step ==
    \/ write_cmm
    \/ write_bist
    \/ write_poll
    \/ \E v \in StatusData : read_status(v)
    \/ \E v \in BistData : read_bist(v)

SpecSelfTestFair == SpecSelfTest /\ WF_vars(Free /\ self_test_step)

\* v as three bytes, big-endian two's complement (v.to_bytes(3, "big",
\* signed=True)): the bytes of v modulo 2^24.
int24_to_bytes(v) ==
    LET u == v % 16777216
    IN  <<u \div 65536, (u \div 256) % 256, u % 256>>

\* How far around each boundary value the signed 24-bit arguments go.
SampleWidth == 40

\* Signed 24-bit values: those within SampleWidth of the ends of the range, of
\* zero and of the byte boundaries, and 511 values spread over the range.
Int24Inputs ==
    {v \in UNION {{p - k, p + k} :
                    p \in {0 - 8388608, 0 - 65536, 0 - 256, 0, 256, 65536, 8388607},
                    k \in 0..SampleWidth} :
        v >= 0 - 8388608 /\ v <= 8388607}
    \cup {32771 * k : k \in (0 - 255)..255}

\* Non-negative arguments wider than 24 bits: bits above bit 23 set over low
\* parts at the ends of both halves of the 24-bit range.
WideInputs ==
    {high * 16777216 + low :
        high \in {1, 2, 85, 127},
        low \in {0, 1, 5, 8388607, 8388608, 8388613, 11184810, 16777215}}

\* One call of uint24_to_int24 on the three bytes of a signed 24-bit value or
\* on a wider argument, or one call of endian_swap_int16 on a 16-bit value.
InitCodec ==
    \/ \E v \in Int24Inputs :
          InitCalling("uint24_to_int24", from_bytes_big(int24_to_bytes(v)))
    \/ \E u \in WideInputs : InitCalling("uint24_to_int24", u)
    \/ \E x \in 0..65535 : InitCalling("endian_swap_int16", x)

NextCodec ==
    \/ Free /\ return_uint24_to_int24
    \/ Free /\ return_endian_swap_int16

SpecCodec == InitCodec /\ [][NextCodec]_vars

\* The whole driver: at most MaxCalls method calls in one run, each method
\* with one accepted and one rejected argument (where it rejects any).
MaxCalls == 3

SomeAddrInputs == {I2C_ADDR_HH, 36}
SomeCcrInputs ==
    {<<Some(258), Some(772), Some(1286)>>, <<Some(0), Some(258), Some(258)>>,
     <<None, Some(772), None>>, <<Some(258), Some(65536), Some(258)>>}
SomeTmrcInputs == {TMRC_600HZ, TMRC_REGISTER_ADDR}
SomeCmmInputs == {<<TRUE, FALSE, FALSE, FALSE, TRUE>>, <<FALSE, TRUE, TRUE, TRUE, FALSE>>}
SomeHshakeInputs == {<<TRUE, FALSE>>, <<FALSE, FALSE>>}
SomeBistTimeoutInputs == {BIST_TO_30us, 0}
SomeBistLrpInputs == {BIST_LRP_2, 0}
SomePollInputs == {<<TRUE, FALSE, FALSE>>, <<FALSE, TRUE, TRUE>>}

Next ==
    \/ \E flag \in BOOLEAN : Free /\ set_print_status_statements(flag)
    \/ \E a \in SomeAddrInputs : Counted(MaxCalls) /\ assign_device_addr(a)
    \/ \E c \in SomeCcrInputs : Counted(MaxCalls) /\ assign_xyz_ccr(c[1], c[2], c[3])
    \/ \E t \in SomeTmrcInputs : Counted(MaxCalls) /\ assign_tmrc(t)
    \/ \E c \in SomeCmmInputs :
          Counted(MaxCalls) /\ assign_cmm_byte(c[1], c[2], c[3], c[4], c[5])
    \/ \E h \in SomeHshakeInputs : Counted(MaxCalls) /\ assign_hshake_byte(h[1], h[2])
    \/ \E t \in SomeBistTimeoutInputs : Counted(MaxCalls) /\ assign_bist_timeout(t)
    \/ \E l \in SomeBistLrpInputs : Counted(MaxCalls) /\ assign_bist_lrp(l)
    \/ \E e \in BOOLEAN : Counted(MaxCalls) /\ assign_bist_ste(e)
    \/ \E q \in SomePollInputs : Counted(MaxCalls) /\ assign_poll_byte(q[1], q[2], q[3])
    \/ Counted(MaxCalls) /\ write_config
    \/ Free /\ write_bist
    \/ Free /\ write_poll
    \/ Free /\ write_ccr_x
    \/ Free /\ write_ccr_y
    \/ Free /\ write_ccr_z
    \/ Free /\ write_tmrc
    \/ Free /\ write_hshake
    \/ Free /\ write_cmm

Spec == Init /\ [][Next]_vars

\* Any sequence of assign_cmm_byte and assign_poll_byte calls with any
\* arguments, single measurements being consumed by reads in between.
NextCmmPoll ==
    \/ \E x, y, z, drdm, start \in BOOLEAN : Free /\ assign_cmm_byte(x, y, z, drdm, start)
    \/ \E x, y, z \in BOOLEAN : Free /\ assign_poll_byte(x, y, z)
    \/ \E d \in MeasData : Free /\ read_meas_x(d)
    \/ \E d \in MeasData : Free /\ read_meas_y(d)

SpecCmmPoll == Init /\ [][NextCmmPoll]_vars

\* Any sequence of the two operations that assign the continuous-mode fields,
\* assign_cmm_byte with any arguments and self_test.
NextCmmFlags ==
    \/ \E x, y, z, drdm, start \in BOOLEAN : Free /\ assign_cmm_byte(x, y, z, drdm, start)
    \/ \E n \in {0, 1} : Free /\ self_test(n)
    \/ Free /\ write_cmm
    \/ Free /\ write_bist
    \/ Free /\ write_poll
    \/ \E v \in {0, STATUS_DRDY} : Free /\ read_status(v)
    \/ \E v \in BistData : Free /\ read_bist(v)

SpecCmmFlags == Init /\ [][NextCmmFlags]_vars

\* Up to MaxCalls calls of any kind: the setters and write_config of Next, the
\* address setter with every address tried, the reads and self_test.
NextAnyOperation ==
    \/ Next
    \/ \E a \in AddrInputs : Counted(MaxCalls) /\ assign_device_addr(a)
    \/ \E d \in MeasData : Counted(MaxCalls) /\ read_meas_x(d)
    \/ \E d \in MeasData : Counted(MaxCalls) /\ read_meas_y(d)
    \/ \E d \in MeasData : Counted(MaxCalls) /\ read_meas_z(d)
    \/ \E d \in MeasData : Counted(MaxCalls) /\ read_meas(d, d, d)
    \/ \E n \in {0, 1} : Counted(MaxCalls) /\ self_test(n)
    \/ \E v \in StatusData : Free /\ read_status(v)
    \/ \E v \in BistData : Free /\ read_bist(v)

SpecAnyOperation == Init /\ [][NextAnyOperation]_vars

\* Two cycle counts whose high and low bytes differ.
CcrWords == {258, 4660}

\* Any sequence of assign_xyz_ccr and write_ccr calls.
NextWriteCcr ==
    \/ \E x, y, z \in CcrWords : Free /\ assign_xyz_ccr(Some(x), Some(y), Some(z))
    \/ Free /\ write_ccr
    \/ Free /\ write_ccr_x
    \/ Free /\ write_ccr_y
    \/ Free /\ write_ccr_z

SpecWriteCcr == Init /\ [][NextWriteCcr]_vars

\* Any sequence of assign_hshake_byte calls with any arguments and of
\* write_config calls.
NextHshake ==
    \/ \E drc1, drc0 \in BOOLEAN : Free /\ assign_hshake_byte(drc1, drc0)
    \/ Free /\ write_config
    \/ Free /\ write_bist
    \/ Free /\ write_poll
    \/ Free /\ write_ccr_x
    \/ Free /\ write_ccr_y
    \/ Free /\ write_ccr_z
    \/ Free /\ write_tmrc
    \/ Free /\ write_hshake
    \/ Free /\ write_cmm

SpecHshake == Init /\ [][NextHshake]_vars

\* Any sequence of assign_cmm_byte and init_rm3100 calls.
NextInitRm3100 ==
    \/ \E x, drdm, start \in BOOLEAN : Free /\ assign_cmm_byte(x, x, x, drdm, start)
    \/ Free /\ init_rm3100
    \/ Free /\ write_bist
    \/ Free /\ read_back("read_bist_back", BIST_REGISTER_ADDR)
    \/ Free /\ write_poll
    \/ Free /\ read_back("read_poll_back", POLL_REGISTER_ADDR)
    \/ Free /\ write_ccr_x
    \/ Free /\ write_ccr_y
    \/ Free /\ write_ccr_z
    \/ Free /\ read_word_back("read_ccr_x", CCR_REGISTER_ADDR)
    \/ Free /\ read_word_back("read_ccr_y", CCR_REGISTER_ADDR + 2)
    \/ Free /\ read_word_back("read_ccr_z", CCR_REGISTER_ADDR + 4)
    \/ Free /\ write_tmrc
    \/ Free /\ read_back("read_tmrc_back", TMRC_REGISTER_ADDR)
    \/ Free /\ write_hshake
    \/ Free /\ read_back("read_hshake_back", HSHAKE_REGISTER_ADDR)
    \/ Free /\ write_cmm
    \/ Free /\ read_back("read_cmm_back", CMM_REGISTER_ADDR)

SpecInitRm3100 == Init /\ [][NextInitRm3100]_vars

\* Any sequence of read_meas_x and read_meas_y calls on a bus whose block
\* reads may fail, continuous mode and single measurements being set in
\* between.
NextReadError ==
    \/ \E x, y \in BOOLEAN : Free /\ assign_cmm_byte(x, y, FALSE, TRUE, TRUE)
    \/ \E x, y, z \in BOOLEAN : Free /\ assign_poll_byte(x, y, z)
    \/ \E d \in MeasData : Free /\ read_meas_x(d)
    \/ \E d \in MeasData : Free /\ read_meas_y(d)
    \/ \E d \in MeasData :
          Free /\ read_meas_raises_OSError("read_meas_x", read_meas_x_body(poll_byte, d))
    \/ \E d \in MeasData :
          Free /\ read_meas_raises_OSError("read_meas_y", read_meas_y_body(poll_byte, d))

SpecReadError == Init /\ [][NextReadError]_vars

\* Two sessions, each calling write_config any number of times, with or
\* without a lock around each call.
NextTwoSessions ==
    \/ adopt_mutex
    \/ own_write_config
    \/ OwnWrite(write_bist)
    \/ OwnWrite(write_poll)
    \/ OwnWrite(write_ccr_x)
    \/ OwnWrite(write_ccr_y)
    \/ OwnWrite(write_ccr_z)
    \/ OwnWrite(write_tmrc)
    \/ OwnWrite(write_hshake)
    \/ OwnWrite(write_cmm)
    \/ peer_write_config
    \/ peer_write

SpecTwoSessions == Init /\ [][NextTwoSessions]_vars

\* The whole driver on a bus whose writes can fail.
NextBusError ==
    \/ Next
    \/ Free /\ write_raises_OSError

SpecBusError == Init /\ [][NextBusError]_vars

-----------------------------------------------------------------------------
(* Properties of write_config.                                             *)

\* The registers of the bus transactions logged so far.
BusRegs == [i \in 1..Len(bus) |-> bus[i].reg]
BusOps == [i \in 1..Len(bus) |-> bus[i].op]

\* C1: write_config issues exactly eight register writes, BIST (0x33), POLL
\* (0x00), CCR-x (0x04), CCR-y (0x06), CCR-z (0x08), TMRC (0x0B), HSHAKE (0x35),
\* CMM (0x01), in that order: at every point of the call the transactions
\* issued so far are a prefix of that list, all addressed to device_addr, and
\* when the call returns all eight have been issued, the CMM write being the
\* last transaction (nothing, in particular no TMRC write and no read, follows).
C1_WriteConfigOrder ==
    last.op = "write_config" =>
        /\ Len(bus) <= 8
        /\ BusRegs = SubSeq(<<51, 0, 4, 6, 8, 11, 53, 1>>, 1, Len(bus))
        /\ BusOps = SubSeq(<<"write_byte", "write_byte", "write_word", "write_word",
                             "write_word", "write_byte", "write_byte", "write_byte">>,
                           1, Len(bus))
        /\ \A i \in 1..Len(bus) : bus[i].addr = device_addr
        /\ (pc = "idle" => Len(bus) = 8 /\ bus[8].reg = 1 /\ bus[8].val = cmm_byte)

\* A write_config that returned, made after the configuration had been
\* changed by two setter calls.
C1_Witness ==
    /\ last.op = "write_config"
    /\ pc = "idle"
    /\ Len(bus) = 8
    /\ calls = 3
    /\ tmrc_byte = 146
    /\ device_addr = 35

\* C2: when the CMM register write is about to be issued, the addressed
\* device's BIST, POLL, TMRC and HSHAKE registers hold bist_byte, poll_byte,
\* tmrc_byte and hshake_byte and its CCR registers hold each cycle count, high
\* byte first (the byte-swapped word as the bus delivers it); so the write that
\* can start continuous sampling never finds an older value in any of them.
C2_RegistersSetBeforeCmm ==
    pc = "write_cmm" =>
        LET d == dev[device_addr]
        IN  /\ d[51] = bist_byte
            /\ d[0] = poll_byte
            /\ d[4] = x_ccr \div 256 /\ d[5] = x_ccr % 256
            /\ d[6] = y_ccr \div 256 /\ d[7] = y_ccr % 256
            /\ d[8] = z_ccr \div 256 /\ d[9] = z_ccr % 256
            /\ d[11] = tmrc_byte
            /\ d[53] = hshake_byte

\* The second write_config to a device, about to write CMM: the device still
\* holds the CMM byte of the first one, which the configuration has since
\* dropped.
C2_Witness ==
    /\ pc = "write_cmm"
    /\ dev[device_addr][1] # Unwritten
    /\ dev[device_addr][1] # cmm_byte
    /\ dev[device_addr][11] = tmrc_byte

-----------------------------------------------------------------------------
(* Properties of assign_xyz_ccr.                                           *)

\* The cycle counts and scalings of a configuration record.
CcrFields(c) == <<c.x_ccr, c.y_ccr, c.z_ccr, c.x_scaling, c.y_scaling, c.z_scaling>>

\* An integer argument outside [0, 0xFFFF].
OutOfRange(a) == a # <<>> /\ (a[1] < 0 \/ a[1] > 65535)
\* An integer argument in [1, 0xFFFF].
ValidCount(a) == a # <<>> /\ a[1] >= 1 /\ a[1] <= 65535

\* scaling is 1 / ((150/400) * ccr): scaling * 150 * ccr = 400, on fractions.
ScaleOf(ccr, scaling) == scaling[1] * 150 * ccr = 400 * scaling[2]

\* C3: assign_xyz_ccr called with an argument outside [0, 0xFFFF] for any axis,
\* whatever the other two arguments are, leaves the three cycle counts and the
\* three scalings (and every other field) as they were before the call.
C3_OutOfRangeRejectsWholeCall ==
    (/\ last.op = "assign_xyz_ccr"
     /\ \E i \in 1..3 : OutOfRange(last.args[i]))
    => /\ CcrFields(Cfg) = CcrFields(pre)
       /\ Cfg = pre

\* A call whose x and y arguments are valid and differ from the stored counts
\* and whose z argument is 0x10000.
C3_Witness ==
    /\ last.op = "assign_xyz_ccr"
    /\ last.args = <<Some(65535), Some(65535), Some(65536)>>
    /\ pre.x_ccr = 0
    /\ pre.y_ccr = 200
    /\ x_ccr = 0

\* C4: each argument of assign_xyz_ccr is independently optional: when every
\* argument is None or a value in [1, 0xFFFF], an axis given None keeps its
\* cycle count and scaling and an axis given a value gets that cycle count
\* and the scaling derived from it.
C4_NoneLeavesAxisOthersAssigned ==
    (/\ last.op = "assign_xyz_ccr"
     /\ \A i \in 1..3 : last.args[i] = None \/ ValidCount(last.args[i]))
    => /\ IF last.args[1] = None
          THEN x_ccr = pre.x_ccr /\ x_scaling = pre.x_scaling
          ELSE x_ccr = last.args[1][1] /\ ScaleOf(x_ccr, x_scaling)
       /\ IF last.args[2] = None
          THEN y_ccr = pre.y_ccr /\ y_scaling = pre.y_scaling
          ELSE y_ccr = last.args[2][1] /\ ScaleOf(y_ccr, y_scaling)
       /\ IF last.args[3] = None
          THEN z_ccr = pre.z_ccr /\ z_scaling = pre.z_scaling
          ELSE z_ccr = last.args[3][1] /\ ScaleOf(z_ccr, z_scaling)

\* C5: in every state each axis's scaling is the one derived from that axis's
\* current cycle count.
C5_ScalingFollowsCycleCount ==
    /\ ScaleOf(x_ccr, x_scaling)
    /\ ScaleOf(y_ccr, y_scaling)
    /\ ScaleOf(z_ccr, z_scaling)

\* C6: assign_xyz_ccr called with 0 for some axis, the other arguments being
\* values in [1, 0xFFFF], leaves the cycle counts and scalings unchanged and
\* raises nothing (the division by zero is not reached).
C6_ZeroRejected ==
    (/\ last.op = "assign_xyz_ccr"
     /\ \E i \in 1..3 : last.args[i] = Some(0)
     /\ \A i \in 1..3 : last.args[i] = Some(0) \/ ValidCount(last.args[i]))
    => /\ CcrFields(Cfg) = CcrFields(pre)
       /\ last.exc = "none"

-----------------------------------------------------------------------------
(* Properties of assign_device_addr and assign_tmrc.                       *)

\* C7: assign_device_addr called with a value other than 0x20, 0x21, 0x22,
\* 0x23 leaves device_addr as it was before the call; called with one of the
\* four it sets device_addr to that value.
C7_DeviceAddrAcceptsOnlyFour ==
    last.op = "assign_device_addr" =>
        IF last.args[1] \in {32, 33, 34, 35}
        THEN device_addr = last.args[1]
        ELSE device_addr = pre.device_addr

\* assign_device_addr(0x24) on an object whose address had been set to 0x23.
C7_Witness ==
    /\ last.op = "assign_device_addr"
    /\ last.args = <<36>>
    /\ pre.device_addr = 35
    /\ device_addr = 35

\* The setter calls C8 counts as rejected.
RejectedCall ==
    \/ last.op = "assign_device_addr" /\ last.args[1] \notin {32, 33, 34, 35}
    \/ last.op = "assign_xyz_ccr" /\ \E i \in 1..3 : OutOfRange(last.args[i])
    \/ last.op = "assign_tmrc" /\ last.args[1] \notin 146..159
    \/ last.op = "assign_bist_timeout" /\ last.args[1] \notin {4, 8, 12}
    \/ last.op = "assign_bist_lrp" /\ last.args[1] \notin {1, 2, 3}

\* C8: every rejected setter call ends in an outcome the caller can tell from
\* a successful call (an exception, or a return value other than the None a
\* successful call returns), whatever print_status_statements is.
C8_RejectionIsSignalled ==
    RejectedCall => (last.exc # "none" \/ last.ret # "None")

\* C9: assign_tmrc sets tmrc_byte to its argument when that is one of the 14
\* codes 0x92..0x9F and leaves it unchanged for any other argument (0x0B, the
\* register address, included); tmrc_byte is one of the 14 codes in every state.
C9_TmrcAcceptsOnlyCodes ==
    /\ tmrc_byte \in 146..159
    /\ last.op = "assign_tmrc" =>
           IF last.args[1] \in 146..159
           THEN tmrc_byte = last.args[1]
           ELSE tmrc_byte = pre.tmrc_byte

\* assign_tmrc(0x0B) on an object whose timer code had been set to 0x9F.
C9_Witness ==
    /\ last.op = "assign_tmrc"
    /\ last.args = <<11>>
    /\ pre.tmrc_byte = 159
    /\ tmrc_byte = 159

-----------------------------------------------------------------------------
(* Properties of the BIST setters.                                         *)

\* The fields of a BIST byte: timeout (bits 0x0C), LR periods (bits 0x03),
\* self-test enable (bit 0x80).
TimeoutBits(b) == ((b \div 4) % 4) * 4
LrpBits(b) == b % 4
SteBit(b) == (b \div 128) % 2

\* C10: assign_bist_timeout with one of the three timeout codes sets bits 0x0C
\* of bist_byte to that code and leaves the LR-period bits and the
\* self-test-enable bit as they were.
C10_TimeoutLeavesLrpAndSte ==
    (last.op = "assign_bist_timeout" /\ last.args[1] \in {4, 8, 12})
    => /\ TimeoutBits(bist_byte) = last.args[1]
       /\ LrpBits(bist_byte) = LrpBits(pre.bist_byte)
       /\ SteBit(bist_byte) = SteBit(pre.bist_byte)
       /\ bist_byte = pre.bist_byte - TimeoutBits(pre.bist_byte) + last.args[1]

\* The timeout goes from 60us to 30us on a byte with STE set and 1 LR period.
C10_Witness ==
    /\ last.op = "assign_bist_timeout"
    /\ last.args = <<4>>
    /\ pre.bist_byte = 128 + 8 + 1
    /\ bist_byte = 128 + 4 + 1

-----------------------------------------------------------------------------
(* Properties of the measurement reads.                                    *)

\* A block read of three bytes starting at register reg of the addressed device.
IsBlockRead3(t, reg) ==
    /\ t.op = "read_block"
    /\ t.reg = reg
    /\ t.addr = device_addr
    /\ Len(t.val) = 3

QuietRead == ~last.printed /\ last.exc # "TypeError"

\* Whether axis a was enabled or had a single measurement pending when the
\* last call began.
Wanted(a) ==
    CASE a = "x" -> pre.cmx \/ BitAnd(pre.poll_byte, POLL_PMX) # 0
      [] a = "y" -> pre.cmy \/ BitAnd(pre.poll_byte, POLL_PMY) # 0
      [] a = "z" -> pre.cmz \/ BitAnd(pre.poll_byte, POLL_PMZ) # 0

\* C12: with the print flags off, read_meas_x, read_meas_y and read_meas_z
\* each issue one 3-byte block read exactly when their own axis is enabled
\* (cmx, cmy, cmz) or has its own single measurement pending (PMX, PMY, PMZ),
\* and otherwise return None without a bus transaction and without raising.
C12_ReadGatedByOwnAxis ==
    \A a \in {"x", "y", "z"} :
        (last.op = "read_meas_" \o a /\ QuietRead) =>
            /\ last.exc = "none"
            /\ IF Wanted(a)
               THEN /\ Len(bus) = 1
                    /\ IsBlockRead3(bus[1], meas_register(a))
                    /\ last.ret = "value"
               ELSE bus = <<>> /\ last.ret = "None"

\* C13: with the print flags off, read_meas returns a list of three elements
\* in every configuration, the element of an axis being None exactly when the
\* axis was neither enabled nor pending.
C13_ReadMeasAlwaysReturnsList ==
    (last.op = "read_meas" /\ QuietRead) =>
        /\ last.exc = "none"
        /\ last.ret = "list"
        /\ Len(retval) = 3
        /\ (retval[1] = None) = ~Wanted("x")
        /\ (retval[2] = None) = ~Wanted("y")
        /\ (retval[3] = None) = ~Wanted("z")

\* C14: with cmx, cmy and cmz all set, read_meas issues exactly three bus
\* transactions, 3-byte block reads at 0x24, 0x27 and 0x2A in that order, all to
\* device_addr, and returns.
C14_ReadMeasThreeBlockReads ==
    (last.op = "read_meas" /\ pre.cmx /\ pre.cmy /\ pre.cmz) =>
        /\ last.exc = "none"
        /\ Len(bus) = 3
        /\ IsBlockRead3(bus[1], 36)
        /\ IsBlockRead3(bus[2], 39)
        /\ IsBlockRead3(bus[3], 42)

\* read_meas with all axes enabled on a device at 0x23, status prints on.
C14_Witness ==
    /\ last.op = "read_meas"
    /\ pre.cmx /\ pre.cmy /\ pre.cmz
    /\ Len(bus) = 3
    /\ last.printed
    /\ device_addr = 35
    /\ retval[3] # None

-----------------------------------------------------------------------------
(* Properties of self_test.                                                *)

\* The positions in the bus log of the reads of register reg.
ReadsOf(reg) == {k \in 1..Len(bus) : bus[k].op = "read_byte" /\ bus[k].reg = reg}

\* The status polls of the call that found DRDY set.
ReadyPolls == {k \in ReadsOf(STATUS_REGISTER_ADDR) : BitAnd(bus[k].val, STATUS_DRDY) # 0}

\* A self_test call has returned.
SelfTestReturned == last.op = "self_test" /\ pc = "idle"

\* C15: a self_test(attempt_num = N), N >= 1, none of whose status polls found
\* DRDY set returns None (the timeout outcome) after exactly N reads of the
\* STATUS register, the last of them being the last bus transaction of the
\* call (no BIST read follows).
C15_TimeoutAfterNPolls ==
    (SelfTestReturned /\ last.args[1] >= 1 /\ ReadyPolls = {}) =>
        /\ last.ret = "None"
        /\ retval = None
        /\ Cardinality(ReadsOf(STATUS_REGISTER_ADDR)) = last.args[1]
        /\ ReadsOf(BIST_REGISTER_ADDR) = {}
        /\ bus[Len(bus)].reg = STATUS_REGISTER_ADDR

\* C16: a self_test one of whose status polls found DRDY set, whichever poll
\* it was and whatever the budget (0 included), polls no further, reads the
\* BIST register once and returns the byte read, not None.
C16_ReadyPollReturnsBist ==
    (SelfTestReturned /\ ReadyPolls # {}) =>
        /\ ReadyPolls = {Len(bus) - 1}
        /\ ReadsOf(BIST_REGISTER_ADDR) = {Len(bus)}
        /\ last.ret = "value"
        /\ retval = Some(bus[Len(bus)].val)

\* C17: the bus transactions of a self_test start with exactly three writes,
\* CMM with 0x00, then BIST with bist_byte, then POLL with poll_byte, all to
\* device_addr, and everything after them is a read: the first STATUS read
\* comes fourth, and no read is issued before the three writes are.
C17_SelfTestWritesBeforePolling ==
    last.op = "self_test" =>
        /\ \A k \in 1..Len(bus) :
              /\ bus[k].addr = device_addr
              /\ k = 1 => bus[k].op = "write_byte" /\ bus[k].reg = 1 /\ bus[k].val = 0
              /\ k = 2 => bus[k].op = "write_byte" /\ bus[k].reg = 51
                             /\ bus[k].val = bist_byte
              /\ k = 3 => bus[k].op = "write_byte" /\ bus[k].reg = 0
                             /\ bus[k].val = poll_byte
              /\ k > 3 => bus[k].op = "read_byte"
        /\ pc \in {"read_status", "read_bist", "idle"} => Len(bus) >= 3
        /\ Len(bus) >= 4 => bus[4].reg = 52

\* A self_test that has polled STATUS, on an object whose BIST and POLL bytes
\* had been changed and whose device still held the CMM byte of no earlier
\* call: the three writes carried 0x00, 0x8F and 0x70.
C17_Witness ==
    /\ last.op = "self_test"
    /\ Len(bus) >= 4
    /\ bus[1].val = 0
    /\ bus[2].val = 143
    /\ bus[3].val = 112
    /\ pre.cmm_byte = 117

-----------------------------------------------------------------------------
(* Properties of uint24_to_int24 and endian_swap_int16.                    *)

\* C18: for every v in [-2^23, 2^23 - 1], uint24_to_int24 called on v encoded
\* as a 24-bit two's-complement big-endian value returns v.
C18_Int24RoundTrip ==
    (last.op = "uint24_to_int24" /\ pc = "idle") =>
        \A v \in Int24Inputs :
            last.args[1] = from_bytes_big(int24_to_bytes(v)) => retval = Some(v)

\* The call on the bytes 0x80 0x00 0x00 has returned the most negative value.
C18_Witness ==
    /\ last.op = "uint24_to_int24"
    /\ pc = "idle"
    /\ last.args[1] = 8388608
    /\ retval = Some(0 - 8388608)

\* C19: for every x in [0, 0xFFFF] the result of endian_swap_int16(x) is in
\* [0, 0xFFFF] and endian_swap_int16 applied to it gives x back.
C19_SwapSelfInverse ==
    (last.op = "endian_swap_int16" /\ pc = "idle") =>
        /\ retval[1] \in 0..65535
        /\ endian_swap_int16(retval[1]) = last.args[1]

\* The call on 0x1234 has returned 0x3412.
C19_Witness ==
    /\ last.op = "endian_swap_int16"
    /\ pc = "idle"
    /\ last.args[1] = 4660
    /\ retval = Some(13330)

-----------------------------------------------------------------------------
(* Properties of the setters as a group.                                   *)

AssignOps ==
    {"assign_device_addr", "assign_xyz_ccr", "assign_tmrc", "assign_cmm_byte",
     "assign_hshake_byte", "assign_bist_timeout", "assign_bist_lrp",
     "assign_bist_ste", "assign_poll_byte"}

\* C20: a call of any assign_* setter, accepted or rejected, issues no bus
\* transaction and leaves the registers of every device as they were.
C20_SettersIssueNoBusTransaction ==
    [][(pc = "idle" /\ pc' = "idle" /\ last'.op \in AssignOps)
           => (dev' = dev /\ bus' = <<>>)]_vars

\* assign_tmrc(0x92) has changed tmrc_byte after a write_config; the device
\* still holds the 0x96 written then.
C20_Witness ==
    /\ last.op = "assign_tmrc"
    /\ tmrc_byte = 146
    /\ dev[device_addr][11] = 150
    /\ bus = <<>>

-----------------------------------------------------------------------------
(* Properties of write_config on a failing bus.                            *)

\* Transaction t, a successful write, is what the device now holds.
Applied(t) ==
    IF t.op = "write_word"
    THEN /\ dev[t.addr][t.reg] = t.val % 256
         /\ dev[t.addr][t.reg + 1] = t.val \div 256
    ELSE t.op = "write_byte" /\ dev[t.addr][t.reg] = t.val

\* C21: when the k-th write of write_config fails, the call ends there with
\* that write's OSError: the bus log is the first k - 1 writes of the sequence
\* BIST, POLL, CCR-x, CCR-y, CCR-z, TMRC, HSHAKE, CMM followed by the failed
\* k-th one and nothing after it, and the device holds what the first k - 1
\* writes wrote.
C21_FailedWriteEndsWriteConfig ==
    (last.op = "write_config" /\ last.exc = "OSError") =>
        /\ pc = "idle"
        /\ Len(bus) \in 1..8
        /\ BusRegs = SubSeq(<<51, 0, 4, 6, 8, 11, 53, 1>>, 1, Len(bus))
        /\ bus[Len(bus)].op = "error"
        /\ \A j \in 1..(Len(bus) - 1) : Applied(bus[j])

\* The TMRC write of a write_config failed after the configuration had been
\* changed: BIST, POLL and CCR are on the device, TMRC, HSHAKE and CMM are not.
C21_Witness ==
    /\ last.op = "write_config"
    /\ last.exc = "OSError"
    /\ Len(bus) = 6
    /\ tmrc_byte = 146
    /\ dev[device_addr][51] = bist_byte
    /\ dev[device_addr][8] = z_ccr \div 256
    /\ dev[device_addr][11] = Unwritten
    /\ dev[device_addr][1] = Unwritten

-----------------------------------------------------------------------------
(* Properties of two sessions on one device.                               *)

\* The device at 0x20 holds every register of configuration c.
DeviceHolds(c) ==
    LET d == dev[I2C_ADDR_LL]
    IN  /\ d[51] = c.bist_byte
        /\ d[0] = c.poll_byte
        /\ d[4] = c.x_ccr \div 256 /\ d[5] = c.x_ccr % 256
        /\ d[6] = c.y_ccr \div 256 /\ d[7] = c.y_ccr % 256
        /\ d[8] = c.z_ccr \div 256 /\ d[9] = c.z_ccr % 256
        /\ d[11] = c.tmrc_byte
        /\ d[53] = c.hshake_byte
        /\ d[1] = c.cmm_byte

\* Both sessions have completed a write_config and neither is inside one.
BothReturned ==
    /\ pc = "idle" /\ last.op = "write_config"
    /\ peer = [pc |-> "idle", done |-> TRUE]

\* C22: when every write_config runs under the callers' one lock, the device
\* holds, whenever both sessions have written and neither is inside a call,
\* one session's configuration in full.  (Without the lock a mixture is
\* reachable: C22_Witness.)
C22_SerializedWritesLeaveOneConfig ==
    (mutex # "unused" /\ BothReturned) => (DeviceHolds(Cfg) \/ DeviceHolds(PeerCfg))

\* No lock: both write_config calls have returned and the device holds the
\* second session's CMM and HSHAKE bytes with the first session's TMRC byte
\* and cycle counts.
C22_Witness ==
    /\ mutex = "unused"
    /\ BothReturned
    /\ dev[I2C_ADDR_LL][1] = PeerCfg.cmm_byte
    /\ dev[I2C_ADDR_LL][53] = PeerCfg.hshake_byte
    /\ dev[I2C_ADDR_LL][11] = tmrc_byte
    /\ dev[I2C_ADDR_LL][4] = x_ccr \div 256
    /\ dev[I2C_ADDR_LL][5] = x_ccr % 256
    /\ ~DeviceHolds(Cfg)
    /\ ~DeviceHolds(PeerCfg)

-----------------------------------------------------------------------------
(* Properties of construction, assign_cmm_byte and assign_poll_byte.       *)

\* C23: a newly constructed object holds device_addr 0x20, cycle counts 0x00C8
\* with scale 1/75, cmm_byte 0x75 with cmx = cmy = cmz = true, poll_byte 0x00,
\* bist_byte 0x0F, hshake_byte 0x03 and tmrc_byte 0x96, and each default scale
\* is the scale derived from the default cycle count.
C23_Defaults ==
    last.op = "__init__" =>
        /\ device_addr = 32
        /\ x_ccr = 200 /\ y_ccr = 200 /\ z_ccr = 200
        /\ x_scaling = <<1, 75>> /\ y_scaling = <<1, 75>> /\ z_scaling = <<1, 75>>
        /\ ~cycle_count_to_scaling_raises(x_ccr)
        /\ x_scaling = cycle_count_to_scaling(x_ccr)
        /\ y_scaling = cycle_count_to_scaling(y_ccr)
        /\ z_scaling = cycle_count_to_scaling(z_ccr)
        /\ cmm_byte = 117
        /\ cmx /\ cmy /\ cmz
        /\ poll_byte = 0
        /\ bist_byte = 15
        /\ hshake_byte = 3
        /\ tmrc_byte = 150

\* The object as constructed: no method called, nothing on the bus.
C23_Witness ==
    /\ last.op = "__init__"
    /\ calls = 0
    /\ pc = "idle"
    /\ bus = <<>>
    /\ x_ccr = 200
    /\ \A r \in Registers : dev[device_addr][r] = Unwritten

\* 1 for true, 0 for false.
Bit(flag) == IF flag THEN 1 ELSE 0

\* C24: after assign_cmm_byte, from any prior state and for any five booleans,
\* the call has returned normally, cmm_byte is exactly 0x10, 0x20, 0x40, 0x04,
\* 0x01 added up over the arguments that are true, and cmx, cmy, cmz are the
\* three axis arguments.
C24_CmmByteFromScratch ==
    last.op = "assign_cmm_byte" =>
        /\ last.exc = "none"
        /\ cmm_byte = 16 * Bit(last.args[1]) + 32 * Bit(last.args[2])
                        + 64 * Bit(last.args[3]) + 4 * Bit(last.args[4])
                        + Bit(last.args[5])
        /\ cmx = last.args[1]
        /\ cmy = last.args[2]
        /\ cmz = last.args[3]

\* From the byte with all five bits set, only DRDM is asked for.
C24_Witness ==
    /\ last.op = "assign_cmm_byte"
    /\ last.args = <<FALSE, FALSE, FALSE, TRUE, FALSE>>
    /\ pre.cmm_byte = 117
    /\ cmm_byte = 4

\* C25: after assign_poll_byte the call has returned normally and poll_byte is
\* exactly 0x10, 0x20, 0x40 added up over the arguments that are true; a
\* request pending before the call for an axis whose argument is false is gone.
C25_PollByteFromScratch ==
    last.op = "assign_poll_byte" =>
        /\ last.exc = "none"
        /\ poll_byte = 16 * Bit(last.args[1]) + 32 * Bit(last.args[2])
                         + 64 * Bit(last.args[3])

\* A pending x and z request is replaced by a y request alone.
C25_Witness ==
    /\ last.op = "assign_poll_byte"
    /\ last.args = <<FALSE, TRUE, FALSE>>
    /\ pre.poll_byte = 80
    /\ poll_byte = 32

-----------------------------------------------------------------------------
(* Properties of the BIST setters.                                         *)

\* Every configuration field but bist_byte is as it was before the call.
OnlyBistByteChanged == [Cfg EXCEPT !.bist_byte = pre.bist_byte] = pre

\* C27: assign_bist_lrp with 0x01, 0x02 or 0x03 sets bits 0x03 of bist_byte to
\* the code and leaves every other bit of it alone; assign_bist_ste sets or
\* clears bit 0x80 and leaves the low seven bits alone; after either call no
\* other configuration field has changed.
C27_LrpAndSteTouchOwnBits ==
    /\ (last.op = "assign_bist_lrp" /\ last.args[1] \in {1, 2, 3})
       => /\ LrpBits(bist_byte) = last.args[1]
          /\ bist_byte - LrpBits(bist_byte) = pre.bist_byte - LrpBits(pre.bist_byte)
          /\ OnlyBistByteChanged
    /\ last.op = "assign_bist_ste"
       => /\ SteBit(bist_byte) = Bit(last.args[1])
          /\ bist_byte % 128 = pre.bist_byte % 128
          /\ bist_byte \div 256 = pre.bist_byte \div 256
          /\ OnlyBistByteChanged

\* One LR period is selected while the 120 us timeout and STE are set.
C27_Witness ==
    /\ last.op = "assign_bist_lrp"
    /\ last.args = <<1>>
    /\ pre.bist_byte = 128 + 12 + 3
    /\ bist_byte = 128 + 12 + 1

\* C28: assign_bist_timeout with a value other than 0x04, 0x08, 0x0C and
\* assign_bist_lrp with a value other than 0x01, 0x02, 0x03 leave bist_byte,
\* and every other configuration field, unchanged.
C28_RejectedBistValuesChangeNothing ==
    (\/ last.op = "assign_bist_timeout" /\ last.args[1] \notin {4, 8, 12}
     \/ last.op = "assign_bist_lrp" /\ last.args[1] \notin {1, 2, 3})
    => /\ bist_byte = pre.bist_byte
       /\ Cfg = pre

\* A period of 0x00 is refused while period, timeout and STE bits are set.
C28_Witness ==
    /\ last.op = "assign_bist_lrp"
    /\ last.args = <<0>>
    /\ pre.bist_byte = 128 + 8 + 2
    /\ bist_byte = 128 + 8 + 2

-----------------------------------------------------------------------------
(* The device address over all operations.                                 *)

\* C26: in every state reachable by setters, writes, reads and self_test
\* calls, whatever their arguments, device_addr is one of 0x20, 0x21, 0x22,
\* 0x23.
C26_DeviceAddrAlwaysValid ==
    device_addr \in {32, 33, 34, 35}

\* 0x24 is refused after the address was moved to 0x23 and the device at 0x23
\* was written to.
C26_Witness ==
    /\ last.op = "assign_device_addr"
    /\ last.args = <<36>>
    /\ device_addr = 35
    /\ \E r \in Registers : dev[35][r] # Unwritten

-----------------------------------------------------------------------------
(* Properties of write_ccr.                                                *)

\* The word whose low byte is the high byte of count and the reverse.
Swapped(count) == (count % 256) * 256 + count \div 256

\* The k-th transaction write_ccr is to issue.
CcrWrite(k) ==
    [op |-> "write_word", addr |-> device_addr, reg |-> 4 + 2 * (k - 1),
     val |-> Swapped(<<x_ccr, y_ccr, z_ccr>>[k])]

\* C29: write_ccr issues three word writes, to 0x04, 0x06, 0x08 in this order,
\* with the byte-swapped x, y, z cycle counts, so that the device holds the
\* high byte of each count at the lower register; the call changes no cycle
\* count, no scaling and no other field.
C29_WriteCcrThreeSwappedWords ==
    last.op = "write_ccr" =>
        /\ Len(bus) <= 3
        /\ \A k \in 1..Len(bus) : bus[k] = CcrWrite(k)
        /\ Cfg = pre
        /\ pc = "idle" =>
              /\ Len(bus) = 3
              /\ \A k \in 1..3 :
                    LET count == <<x_ccr, y_ccr, z_ccr>>[k]
                    IN  /\ dev[device_addr][4 + 2 * (k - 1)] = count \div 256
                        /\ dev[device_addr][5 + 2 * (k - 1)] = count % 256

\* write_ccr has returned after sending 0x1234 for x as the word 0x3412, over
\* the counts an earlier write_ccr left in the device.
C29_Witness ==
    /\ last.op = "write_ccr"
    /\ pc = "idle"
    /\ x_ccr = 4660
    /\ y_ccr = 258
    /\ Len(bus) = 3
    /\ bus[1].val = 13330
    /\ dev[device_addr][4] = 18
    /\ dev[device_addr][5] = 52
    /\ retval = <<None, None, None>>

-----------------------------------------------------------------------------
(* Termination and resources of self_test.                                 *)

\* Every self_test call returns, whatever STATUS reads.
self_test_terminates == (last.op = "self_test" /\ pc # "idle") ~> (pc = "idle")

\* The polls and the waits of a call never exceed the budget plus one and the
\* budget (a negative budget counting as none).
self_test_polls_within_budget_plus_one ==
    last.op = "self_test" =>
        LET budget == IF last.args[1] < 0 THEN 0 ELSE last.args[1]
        IN  /\ Cardinality(ReadsOf(STATUS_REGISTER_ADDR)) <= budget + 1
            /\ self_test_i <= budget

\* The two outcomes of a returned call.
Ready == retval # None /\ Cardinality(ReadsOf(BIST_REGISTER_ADDR)) = 1
TimedOut == retval = None /\ ReadsOf(BIST_REGISTER_ADDR) = {}

\* C30: a self_test call with budget attempt_num >= 0 starts with its counter
\* at zero and an empty bus log, issues its three configuration writes before
\* it polls, never polls STATUS more than attempt_num times nor waits more
\* than attempt_num times, and when it has returned it is in exactly one of
\* Ready (BIST read once, its value returned) and TimedOut (no BIST read, None
\* returned).
C30_SelfTestBoundedByBudget ==
    (last.op = "self_test" /\ last.args[1] >= 0) =>
        /\ pc = self_test_steps[1] => (self_test_i = 0 /\ bus = <<>>)
        /\ pc \in {"read_status", "read_bist", "idle"} =>
              /\ Len(bus) >= 3
              /\ \A k \in 1..3 : bus[k].op = "write_byte"
        /\ Cardinality(ReadsOf(STATUS_REGISTER_ADDR)) <= last.args[1]
        /\ self_test_i <= last.args[1]
        /\ pc = "idle" => (Ready /\ ~TimedOut) \/ (TimedOut /\ ~Ready)

-----------------------------------------------------------------------------
(* uint24_to_int24 on arguments of any width.                              *)

\* C31: for every non-negative argument, wider than 24 bits or not,
\* uint24_to_int24 returns a value in [-2^23, 2^23 - 1]: the low 24 bits of
\* the argument when bit 23 is clear, the low 24 bits minus 2^24 when it is
\* set.
C31_MasksTo24Bits ==
    (last.op = "uint24_to_int24" /\ pc = "idle" /\ last.args[1] >= 0) =>
        LET low == last.args[1] % 16777216
        IN  /\ retval # None
            /\ retval[1] >= 0 - 8388608
            /\ retval[1] <= 8388607
            /\ low < 8388608 => retval[1] = low
            /\ low >= 8388608 => retval[1] = low - 16777216

\* The call on 0x1800005, bits 24 and 23 set, has returned 5 - 2^23.
C31_Witness ==
    /\ last.op = "uint24_to_int24"
    /\ pc = "idle"
    /\ last.args[1] = 25165829
    /\ retval = Some(5 - 8388608)

-----------------------------------------------------------------------------
(* Properties of assign_hshake_byte.                                       *)

\* C32: after assign_hshake_byte the call has returned normally and
\* hshake_byte is exactly 0x02 and 0x01 added up over the arguments that are
\* true; in every state hshake_byte is in 0..3, so none of the read-only NACK
\* bits 0x10, 0x20, 0x40 is set.
C32_HshakeByteFromScratch ==
    /\ hshake_byte \in 0..3
    /\ BitAnd(hshake_byte, 16 + 32 + 64) = 0
    /\ last.op = "assign_hshake_byte" =>
          /\ last.exc = "none"
          /\ hshake_byte = 2 * Bit(last.args[1]) + Bit(last.args[2])

\* DRC0 alone is asked for where DRC1 alone was set, the device still holding
\* the default byte an earlier write_config sent.
C32_Witness ==
    /\ last.op = "assign_hshake_byte"
    /\ last.args = <<FALSE, TRUE>>
    /\ pre.hshake_byte = 2
    /\ hshake_byte = 1
    /\ dev[device_addr][53] = 3

-----------------------------------------------------------------------------
(* Properties of init_rm3100.                                              *)

\* The registers written by the call, in the order of the writes.
WrittenRegisters == [k \in 1..Len(SelectSeq(bus, LAMBDA t : t.op \in {"write_byte", "write_word"}))
                       |-> SelectSeq(bus, LAMBDA t : t.op \in {"write_byte", "write_word"})[k].reg]

\* init_rm3100 writes BIST, POLL, CCR (x, y, z), TMRC, HSHAKE, CMM in this order.
init_rm3100_write_order ==
    (last.op = "init_rm3100" /\ pc = "idle") =>
        WrittenRegisters = <<51, 0, 4, 6, 8, 11, 53, 1>>

\* C33: when init_rm3100 has returned, run with the START bit set in
\* cmm_byte, its writes were BIST, POLL, CCR, TMRC, HSHAKE, CMM in this order
\* and the device, on which a TMRC write or a CMM read ends continuous mode,
\* is in continuous measurement mode.
C33_InitLeavesContinuousMode ==
    (last.op = "init_rm3100" /\ pc = "idle" /\ BitAnd(cmm_byte, CMM_START) # 0) =>
        /\ WrittenRegisters = <<51, 0, 4, 6, 8, 11, 53, 1>>
        /\ ContinuousModeAfter(bus)

-----------------------------------------------------------------------------
(* What self_test returns and what it leaves in the object.                *)

\* The last status poll of the call found DRDY set.
LastPollReady ==
    /\ ReadsOf(STATUS_REGISTER_ADDR) # {}
    /\ \E k \in ReadyPolls : \A j \in ReadsOf(STATUS_REGISTER_ADDR) : j <= k

\* With a budget of zero or more, a BIST read follows a ready poll only.
self_test_bist_needs_ready_for_budgets_from_zero ==
    (last.op = "self_test" /\ last.args[1] >= 0 /\ ReadsOf(BIST_REGISTER_ADDR) # {})
        => LastPollReady

\* C34: whatever the integer attempt_num (zero and negative included), a
\* self_test call that has read the BIST register, and a call that has
\* returned a value, had DRDY set in its last status poll.
C34_BistOnlyAfterReadyPoll ==
    last.op = "self_test" =>
        /\ ReadsOf(BIST_REGISTER_ADDR) # {} => LastPollReady
        /\ (pc = "idle" /\ retval # None) => LastPollReady

\* C35: during and after a self_test call, Ready or TimedOut, cmm_byte is
\* 0x00 and cmx = cmy = cmz = false, and every other configuration field is
\* as it was before the call; a write_config entered with these fields, as
\* left by self_test, ends by writing 0x00 to the CMM register.
C35_SelfTestClearsOnlyCmm ==
    /\ last.op = "self_test" =>
          /\ cmm_byte = 0
          /\ ~cmx /\ ~cmy /\ ~cmz
          /\ [Cfg EXCEPT !.cmm_byte = pre.cmm_byte, !.cmx = pre.cmx,
                         !.cmy = pre.cmy, !.cmz = pre.cmz] = pre
    /\ (last.op = "write_config" /\ pc = "idle" /\ pre.cmm_byte = 0) =>
          /\ bus[Len(bus)].reg = 1
          /\ bus[Len(bus)].val = 0
          /\ dev[device_addr][1] = 0

\* The default object, a self_test, then a write_config: the device's CMM
\* register holds 0x00, not the default 0x75.
C35_Witness ==
    /\ last.op = "write_config"
    /\ pc = "idle"
    /\ calls = 2
    /\ pre.cmm_byte = 0
    /\ ~cmx /\ ~cmy /\ ~cmz
    /\ tmrc_byte = 150
    /\ dev[device_addr][1] = 0

-----------------------------------------------------------------------------
(* The continuous-mode flags and the packed byte.                          *)

\* C36: in every state cmx is true iff bit 0x10 of cmm_byte is set, cmy iff
\* bit 0x20, cmz iff bit 0x40, and cmm_byte has no bit outside 0x75.
C36_FlagsAgreeWithCmmByte ==
    /\ cmx <=> BitAnd(cmm_byte, 16) # 0
    /\ cmy <=> BitAnd(cmm_byte, 32) # 0
    /\ cmz <=> BitAnd(cmm_byte, 64) # 0
    /\ cmm_byte >= 0
    /\ BitAndNot(cmm_byte, 117) = 0

\* After a self_test cleared everything and sent 0x00 to the device, y and
\* DRDM alone are asked for.
C36_Witness ==
    /\ last.op = "assign_cmm_byte"
    /\ last.args = <<FALSE, TRUE, FALSE, TRUE, FALSE>>
    /\ pre.cmm_byte = 0
    /\ cmm_byte = 36
    /\ ~cmx /\ cmy /\ ~cmz
    /\ dev[device_addr][1] = 0

-----------------------------------------------------------------------------
(* The BIST byte over all BIST setter calls.                               *)

\* C37: in every state reached by BIST setter calls, accepted or rejected,
\* bist_byte is in [0, 0xFF], has none of the result bits 0x10, 0x20, 0x40
\* set, its timeout field is 0x04, 0x08 or 0x0C and its LR-period field is
\* 0x01, 0x02 or 0x03.
C37_BistByteWellFormed ==
    /\ bist_byte \in 0..255
    /\ BitAnd(bist_byte, 16 + 32 + 64) = 0
    /\ TimeoutBits(bist_byte) \in {4, 8, 12}
    /\ LrpBits(bist_byte) \in {1, 2, 3}

\* A timeout of 0x00 is refused where STE, the 30 us timeout and one LR
\* period had been set.
C37_Witness ==
    /\ last.op = "assign_bist_timeout"
    /\ last.args = <<0>>
    /\ bist_byte = 128 + 4 + 1

-----------------------------------------------------------------------------
(* Reads on a bus that fails.                                              *)

\* A read_meas_x or read_meas_y whose block read raised OSError.
ReadFailed == last.op \in {"read_meas_x", "read_meas_y"} /\ last.exc = "OSError"

\* The pending bit of the axis the last read was for.
OwnPending(pb) ==
    IF last.op = "read_meas_x" THEN BitAnd(pb, POLL_PMX) ELSE BitAnd(pb, POLL_PMY)

\* C38: after a read_meas_x or read_meas_y whose block read failed with a bus
\* error, poll_byte (the axis's pending bit with it) and every other field
\* are as before the call, and the same read called again right after it
\* issues the block read again.
C38_FailedReadKeepsPending ==
    /\ [](ReadFailed => (poll_byte = pre.poll_byte /\ Cfg = pre))
    /\ [][(ReadFailed /\ last'.op = last.op)
            => (bus' # <<>> /\ bus'[1].reg = bus[1].reg)]_vars

\* A single x measurement is pending with continuous mode off for x, and the
\* block read at 0x24 has failed.
C38_Witness ==
    /\ ReadFailed
    /\ last.op = "read_meas_x"
    /\ ~cmx
    /\ OwnPending(pre.poll_byte) # 0
    /\ OwnPending(poll_byte) # 0
    /\ bus[1].op = "error"
    /\ bus[1].reg = 36

-----------------------------------------------------------------------------
(* What a read leaves alone.                                               *)

\* Every configuration field but poll_byte is as it was before the call.
OnlyPollByteChanged == [Cfg EXCEPT !.poll_byte = pre.poll_byte] = pre

\* C39: read_meas_x leaves every bit of poll_byte but PMX (0x10), and every
\* other configuration field, as before the call; likewise read_meas_y for
\* every bit but PMY (0x20); a read of any kind entered with no single
\* measurement pending changes no configuration field; and no read issues a
\* register write.
C39_ReadTouchesOwnPendingBitOnly ==
    /\ last.op = "read_meas_x" =>
          /\ BitAndNot(poll_byte, 16) = BitAndNot(pre.poll_byte, 16)
          /\ OnlyPollByteChanged
    /\ last.op = "read_meas_y" =>
          /\ BitAndNot(poll_byte, 32) = BitAndNot(pre.poll_byte, 32)
          /\ OnlyPollByteChanged
    /\ last.op \in {"read_meas_x", "read_meas_y", "read_meas_z", "read_meas"} =>
          /\ BitAnd(pre.poll_byte, 16 + 32 + 64) = 0 => Cfg = pre
          /\ \A k \in 1..Len(bus) : bus[k].op = "read_block"
          /\ \A a \in DeviceAddress : \A r \in Registers : dev[a][r] = Unwritten

\* read_meas_x has read with all three single measurements pending: PMY and
\* PMZ are still pending.
C39_Witness ==
    /\ last.op = "read_meas_x"
    /\ last.exc = "none"
    /\ pre.poll_byte = 112
    /\ poll_byte = 96
    /\ Len(bus) = 1

====
